---- MODULE Spec2Model ----
(***************************************************************************)
(* State-machine model of the OTC desk program                             *)
(* (src/solana/otc-program/programs/otc/src/lib.rs).                       *)
(*                                                                         *)
(* One desk, one registered token mint, and a second mint that has no      *)
(* registry and can only be consigned.  Every instruction handler `h` of   *)
(* the program is translated into two definitions:                         *)
(*   h_check(args)  the handler's chain of require!/err!/checked_* exits,  *)
(*                  in program order: the name of the first OtcError that  *)
(*                  fires in the current state, or "Ok";                   *)
(*   h(args)        the action: enabled when h_check(args) = "Ok", it      *)
(*                  performs every account write and transfer of h.        *)
(* A failed instruction aborts its transaction and the runtime discards    *)
(* every account write, so a rejected call is no step of the machine: its  *)
(* outcome is the value of h_check in the state in which it is made.       *)
(*                                                                         *)
(* `out` holds the transfers and events of the last step in program order. *)
(*                                                                         *)
(* All model values are far below 2^64, so the u64/u128 checked operations *)
(* never take their Overflow exit inside the explored bounds; the exits    *)
(* that depend on a value being zero or on a balance are modelled.         *)
(***************************************************************************)
EXTENDS Integers, Sequences, FiniteSets, TLC

VARIABLES
    desk,        \* the Desk account
    reg,         \* the TokenRegistry account of the token mint
    cons,        \* Consignment accounts, in creation order (cons[i].id = i)
    offers,      \* Offer accounts by account slot
    now,         \* Clock::get()?.unix_timestamp
    ticks,       \* number of clock advances so far (bounds the run)
    treasury,    \* amount of desk_token_treasury, the desk's account of TOKEN_MINT
    otherTreasury, \* amount of the desk's token account of OTHER_MINT
    deskUsdc,    \* amount of desk_usdc_treasury
    deskSol,     \* lamports of the desk account above its rent minimum
    out          \* transfers and events of the last step

vars == <<desk, reg, cons, offers, now, ticks, treasury, otherTreasury, deskUsdc,
          deskSol, out>>

----------------------------------------------------------------------------
(* Bounds of the model *)

MaxOffers == 1
MaxCons == 1
MaxTicks == 2
MaxOfferId == 2
\* the inventory specification: offer accounts and consignments
InvOffers == 2
InvCons == 2
\* quote-phase specification: offer accounts, consignments, offers created
QuoteOffers == 1
QuoteCons == 2
QuoteOfferId == 2
\* refund specification: offer accounts, consignments, offers created
RefundOffers == 1
RefundCons == 1
RefundOfferId == 2
\* restricted-fulfilment specification: offer accounts, consignments, offers
\* created
FulfillOffers == 1
FulfillCons == 1
FulfillOfferId == 2
\* restore specification: offer accounts, consignments
RestoreOffers == 2
RestoreCons == 1
\* private-consignment specification: offer accounts, consignments, offers
\* created
PrivateOffers == 1
PrivateCons == 2
PrivateOfferId == 2
\* arithmetic specification: offer accounts, offers created
MathOffers == 1
MathOfferId == 1
\* price specification: offer accounts, consignments, offers created
PriceOffers == 1
PriceCons == 1
PriceOfferId == 1

----------------------------------------------------------------------------
(* Program constants *)

BPS_DENOM == 10000
USD_SCALE_8D == 100000000
USDC_UNIT == 1000000
LAMPORTS_PER_SOL == 1000000000
SECS_PER_DAY == 86400
INIT_MAX_PRICE_AGE_SECS == 3600
INIT_P2P_COMMISSION_BPS == 25
MIN_QUOTE_EXPIRY_SECS == 60
MIN_NEGOTIATED_COMMISSION_BPS == 25
MAX_NEGOTIATED_COMMISSION_BPS == 150
MAX_P2P_COMMISSION_BPS == 500
MAX_APPROVERS == 32
INIT_REGISTRY_UPDATE_INTERVAL_SECS == 60
MIN_SOL_USD_8D == 1000000
MIN_UPDATE_INTERVAL_SECS == 30
MAX_TWAP_DEVIATION_BPS == 5000
QUOTE_DECIMALS == 6
MAX_EMA_WEIGHT == 3600

\* 30 * 86400: the default emergency-refund deadline and the post-unlock window
THIRTY_DAYS == 30 * SECS_PER_DAY
\* 365 * 86400: the default maximum lockup
ONE_YEAR == 365 * SECS_PER_DAY

----------------------------------------------------------------------------
(* Identities *)

\* Pubkey::default()
DefaultKey == "default"
\* the mint of the desk's TokenRegistry, and a mint that has no registry
TOKEN_MINT == "mint"
OTHER_MINT == "other"
OWNER == "owner"
AGENT == "agent"
Keys == {OWNER, AGENT, "appr", "alice", "bob"}

Slots == 1..MaxOffers

\* first reading of the clock: day 20000 of the Unix epoch
StartTime == 20000 * SECS_PER_DAY

----------------------------------------------------------------------------
(* Arithmetic helpers *)

\* Rust's integer division on i64 truncates toward zero
RustDiv(a, b) == IF a >= 0 THEN a \div b ELSE -((-a) \div b)

RECURSIVE pow10(_)
pow10(exp) == IF exp = 0 THEN 1 ELSE 10 * pow10(exp - 1)

\* <<(a*b) \div d, (a*b) % d>> for d > 0, computed digit by digit of b
\* (base 16) without forming the product, which stands for the u128
\* intermediate of the program
RECURSIVE WideMulDivMod(_, _, _)
WideMulDivMod(a, b, d) ==
    IF b = 0 THEN <<0, 0>>
    ELSE LET h == WideMulDivMod(a, b \div 16, d)
             add == a * (b % 16)
             rem == ((16 * h[2]) % d) + (add % d)
         IN <<(16 * h[1]) + ((16 * h[2]) \div d) + (add \div d) + (rem \div d),
              rem % d>>

mul_div_u128(a, b, d) == WideMulDivMod(a, b, d)[1]

\* mul_div_ceil_u128 dropping the remainder
mul_div_ceil_u128_Floor(a, b, d) == WideMulDivMod(a, b, d)[1]

mul_div_ceil_u128(a, b, d) ==
    LET qr == WideMulDivMod(a, b, d)
    IN IF qr[2] = 0 THEN qr[1] ELSE qr[1] + 1

\* calc_discounted_usd taking the discount off the amount before pricing it
calc_discounted_usd_DiscountFirst(token_amount, price_8d, decimals, discount_bps) ==
    LET net == (token_amount * (BPS_DENOM - discount_bps)) \div BPS_DENOM
    IN mul_div_u128(net, price_8d, pow10(decimals))

calc_discounted_usd(token_amount, price_8d, decimals, discount_bps) ==
    LET usd_8d == mul_div_u128(token_amount, price_8d, pow10(decimals))
    IN (usd_8d * (BPS_DENOM - discount_bps)) \div BPS_DENOM

----------------------------------------------------------------------------
(* Effects of a step, as recorded in `out` *)

DESK == "desk"

Transfer(asset, from, to, amount) ==
    [kind |-> "transfer", what |-> asset, offer |-> 0,
     from |-> from, to |-> to, amount |-> amount]

\* an emitted event, by its name and the offer account it is about
Event(name, offer) ==
    [kind |-> "event", what |-> name, offer |-> offer,
     from |-> DESK, to |-> DESK, amount |-> 0]

----------------------------------------------------------------------------
(* Accounts after construction *)

\* init_desk: the Desk account (fields that no handler ever reads are left
\* out: the deprecated token_* fields, max_token_per_order, the desk-level
\* token price and its timestamp, the feed ids)
InitDesk(min_usd_amount_8d, quote_expiry_secs) ==
    [owner |-> OWNER,
     agent |-> AGENT,
     min_usd_amount_8d |-> min_usd_amount_8d,
     quote_expiry_secs |-> quote_expiry_secs,
     max_price_age_secs |-> INIT_MAX_PRICE_AGE_SECS,
     restrict_fulfill |-> FALSE,
     approvers |-> <<>>,
     next_consignment_id |-> 1,
     next_offer_id |-> 1,
     paused |-> FALSE,
     token_usd_price_8d |-> 0,
     sol_usd_price_8d |-> 0,
     prices_updated_at |-> 0,
     default_unlock_delay_secs |-> 0,
     max_lockup_secs |-> ONE_YEAR,
     emergency_refund_enabled |-> FALSE,
     emergency_refund_deadline_secs |-> THIRTY_DAYS,
     p2p_commission_bps |-> INIT_P2P_COMMISSION_BPS]

\* register_token: the TokenRegistry account
RegisterToken(decimals, pool_type, payer) ==
    [decimals |-> decimals,
     pool_address |-> DefaultKey,
     pool_type |-> pool_type,
     is_active |-> TRUE,
     token_usd_price_8d |-> 0,
     prices_updated_at |-> 0,
     token_mint |-> TOKEN_MINT,
     registered_by |-> payer,
     min_liquidity |-> 0,
     twap_last_timestamp |-> 0,
     twap_last_price |-> 0,
     max_twap_deviation_bps |-> 0,
     min_update_interval_secs |-> INIT_REGISTRY_UPDATE_INTERVAL_SECS]

\* an Offer account that no create instruction has written yet
NoOffer ==
    [consignment_id |-> 0, token_decimals |-> 0, id |-> 0,
     beneficiary |-> DefaultKey, token_amount |-> 0, discount_bps |-> 0,
     created_at |-> 0, unlock_time |-> 0, price_usd_per_token_8d |-> 0,
     max_price_deviation_bps |-> 0, sol_usd_price_8d |-> 0, currency |-> 0,
     approved |-> FALSE, paid |-> FALSE, fulfilled |-> FALSE,
     cancelled |-> FALSE, payer |-> DefaultKey, amount_paid |-> 0,
     agent_commission_bps |-> 0]

\* the Offer account of slot o has been initialised (offer ids start at 1)
IsOffer(o) == offers[o].id # 0

\* desk.approvers.contains(&who)
IsApprover(who) == \E i \in 1..Len(desk.approvers) : desk.approvers[i] = who

----------------------------------------------------------------------------
(* The clock *)

\* the runtime's clock advances by d seconds between two transactions
Tick(d) ==
    /\ ticks < MaxTicks
    /\ d > 0
    /\ now' = now + d
    /\ ticks' = ticks + 1
    /\ out' = <<>>
    /\ UNCHANGED <<desk, reg, cons, offers, treasury, otherTreasury, deskUsdc, deskSol>>

----------------------------------------------------------------------------
(* pause and unpause *)

\* OnlyOwnerDesk: #[account(has_one = owner)] on the desk
OnlyOwnerDesk_check(owner) ==
    IF ~(owner = desk.owner) THEN "ConstraintHasOne" ELSE "Ok"

pause(owner) ==
    /\ OnlyOwnerDesk_check(owner) = "Ok"
    /\ desk' = [desk EXCEPT !.paused = TRUE]
    /\ out' = <<Event("Paused(true)", 0)>>
    /\ UNCHANGED <<reg, cons, offers, now, ticks, treasury, otherTreasury, deskUsdc, deskSol>>

unpause(owner) ==
    /\ OnlyOwnerDesk_check(owner) = "Ok"
    /\ desk' = [desk EXCEPT !.paused = FALSE]
    /\ out' = <<Event("Paused(false)", 0)>>
    /\ UNCHANGED <<reg, cons, offers, now, ticks, treasury, otherTreasury, deskUsdc, deskSol>>

----------------------------------------------------------------------------
(* set_restrict_fulfill, set_approver, set_p2p_commission and              *)
(* set_emergency_refund                                                    *)

set_restrict_fulfill(owner, enabled) ==
    /\ OnlyOwnerDesk_check(owner) = "Ok"
    /\ desk' = [desk EXCEPT !.restrict_fulfill = enabled]
    /\ out' = <<Event("RestrictFulfillUpdated", 0)>>
    /\ UNCHANGED <<reg, cons, offers, now, ticks, treasury, otherTreasury, deskUsdc, deskSol>>

\* set_limits; desk.max_token_per_order, which it also writes, is read by
\* no instruction and is not part of the state
set_limits_check(owner, min_usd_amount_8d, max_token_per_order, quote_expiry_secs, default_unlock_delay_secs, max_lockup_secs) ==
    IF OnlyOwnerDesk_check(owner) # "Ok" THEN OnlyOwnerDesk_check(owner)
    ELSE IF ~(min_usd_amount_8d > 0) THEN "AmountRange"
    ELSE IF ~(max_token_per_order > 0) THEN "AmountRange"
    ELSE IF ~(quote_expiry_secs >= MIN_QUOTE_EXPIRY_SECS) THEN "AmountRange"
    ELSE IF ~(max_lockup_secs >= 0) THEN "AmountRange"
    ELSE IF ~(default_unlock_delay_secs >= 0
              /\ default_unlock_delay_secs <= max_lockup_secs) THEN "AmountRange"
    ELSE "Ok"

set_limits(owner, min_usd_amount_8d, max_token_per_order, quote_expiry_secs, default_unlock_delay_secs, max_lockup_secs) ==
    /\ set_limits_check(owner, min_usd_amount_8d, max_token_per_order,
                        quote_expiry_secs, default_unlock_delay_secs,
                        max_lockup_secs) = "Ok"
    /\ desk' = [desk EXCEPT
                  !.min_usd_amount_8d = min_usd_amount_8d,
                  !.quote_expiry_secs = quote_expiry_secs,
                  !.default_unlock_delay_secs = default_unlock_delay_secs,
                  !.max_lockup_secs = max_lockup_secs]
    /\ out' = <<Event("LimitsUpdated", 0)>>
    /\ UNCHANGED <<reg, cons, offers, now, ticks, treasury, otherTreasury, deskUsdc, deskSol>>

\* Vec::remove(i) for the first position of who
RemoveFirst(s, who) ==
    LET i == CHOOSE j \in 1..Len(s) : s[j] = who /\ \A k \in 1..(j - 1) : s[k] # who
    IN SubSeq(s, 1, i - 1) \o SubSeq(s, i + 1, Len(s))

set_approver_check(owner, who, allowed) ==
    IF ~(owner = desk.owner) THEN "ConstraintHasOne"
    ELSE IF allowed /\ ~IsApprover(who) /\ ~(Len(desk.approvers) < MAX_APPROVERS)
         THEN "TooManyApprovers"
    ELSE "Ok"

set_approver(owner, who, allowed) ==
    /\ set_approver_check(owner, who, allowed) = "Ok"
    /\ desk' = [desk EXCEPT !.approvers =
                   IF allowed
                   THEN (IF IsApprover(who) THEN @ ELSE Append(@, who))
                   ELSE (IF IsApprover(who) THEN RemoveFirst(@, who) ELSE @)]
    /\ out' = <<>>
    /\ UNCHANGED <<reg, cons, offers, now, ticks, treasury, otherTreasury, deskUsdc, deskSol>>

set_p2p_commission_check(owner, bps) ==
    IF ~(owner = desk.owner) THEN "ConstraintHasOne"
    ELSE IF ~(bps <= MAX_P2P_COMMISSION_BPS) THEN "CommissionRange"
    ELSE "Ok"

set_p2p_commission(owner, bps) ==
    /\ set_p2p_commission_check(owner, bps) = "Ok"
    /\ desk' = [desk EXCEPT !.p2p_commission_bps = bps]
    /\ out' = <<>>
    /\ UNCHANGED <<reg, cons, offers, now, ticks, treasury, otherTreasury, deskUsdc, deskSol>>

\* deadline_secs is stored as given
set_emergency_refund(owner, enabled, deadline_secs) ==
    /\ OnlyOwnerDesk_check(owner) = "Ok"
    /\ desk' = [desk EXCEPT !.emergency_refund_enabled = enabled,
                            !.emergency_refund_deadline_secs = deadline_secs]
    /\ out' = <<>>
    /\ UNCHANGED <<reg, cons, offers, now, ticks, treasury, otherTreasury, deskUsdc, deskSol>>

----------------------------------------------------------------------------
(* Prices: set_prices, set_manual_token_price, update_token_price_from_pyth *)

\* the upper bounds of set_prices and set_manual_token_price, 10^12 and
\* 10^13, lie above every price of this model and are not written out
set_prices_check(owner, token_usd_8d, sol_usd_8d, max_age) ==
    IF ~(owner = desk.owner) THEN "ConstraintHasOne"
    ELSE IF ~(max_age >= 0) THEN "AmountRange"
    ELSE IF ~(token_usd_8d > 0) THEN "BadPrice"
    ELSE IF ~(sol_usd_8d >= MIN_SOL_USD_8D) THEN "BadPrice"
    ELSE "Ok"

set_prices(owner, token_usd_8d, sol_usd_8d, max_age) ==
    /\ set_prices_check(owner, token_usd_8d, sol_usd_8d, max_age) = "Ok"
    /\ desk' = [desk EXCEPT !.token_usd_price_8d = token_usd_8d,
                            !.sol_usd_price_8d = sol_usd_8d,
                            !.prices_updated_at = now,
                            !.max_price_age_secs = max_age]
    /\ out' = <<Event("PricesUpdated", 0)>>
    /\ UNCHANGED <<reg, cons, offers, now, ticks, treasury, otherTreasury, deskUsdc, deskSol>>

set_manual_token_price_check(owner, price_8d) ==
    IF ~(owner = desk.owner) THEN "NotOwner"
    ELSE IF ~(price_8d > 0) THEN "BadPrice"
    ELSE IF ~reg.is_active THEN "BadState"
    ELSE "Ok"

set_manual_token_price(owner, price_8d) ==
    /\ set_manual_token_price_check(owner, price_8d) = "Ok"
    /\ reg' = [reg EXCEPT !.token_usd_price_8d = price_8d,
                          !.prices_updated_at = now]
    /\ out' = <<>>
    /\ UNCHANGED <<desk, cons, offers, now, ticks, treasury, otherTreasury, deskUsdc, deskSol>>

\* convert_pyth_price: <<error or "Ok", price with 8 decimals>>; the results
\* of this model stay below 2^64, where u64::try_from succeeds
convert_pyth_price(price, exponent) ==
    LET exp_diff == 8 - exponent IN
    IF ~(price > 0) THEN <<"BadPrice", 0>>
    ELSE IF ~(exp_diff <= 38 /\ exp_diff >= -38) THEN <<"BadPrice", 0>>
    ELSE IF exp_diff >= 0 THEN <<"Ok", price * pow10(exp_diff)>>
    ELSE <<"Ok", price \div pow10(-exp_diff)>>

\* check_price_deviation rejecting a deviation equal to the bound
check_price_deviation_Strict(old_price, new_price, max_deviation_bps) ==
    IF old_price = 0 \/ max_deviation_bps = 0 THEN "Ok"
    ELSE LET diff == IF new_price > old_price THEN new_price - old_price
                     ELSE old_price - new_price
             max_deviation == (old_price * max_deviation_bps) \div BPS_DENOM
         IN IF ~(diff < max_deviation) THEN "PriceDeviationTooLarge" ELSE "Ok"

check_price_deviation(old_price, new_price, max_deviation_bps) ==
    IF old_price = 0 \/ max_deviation_bps = 0 THEN "Ok"
    ELSE LET diff == IF new_price > old_price THEN new_price - old_price
                     ELSE old_price - new_price
             max_deviation == (old_price * max_deviation_bps) \div BPS_DENOM
         IN IF ~(diff <= max_deviation) THEN "PriceDeviationTooLarge" ELSE "Ok"

\* feed: what get_price_no_older_than answers for the account passed, the
\* record [fresh, price, exponent]
update_token_price_from_pyth_check(feed, max_price_deviation_bps) ==
    LET conv == convert_pyth_price(feed.price, feed.exponent) IN
    IF ~(desk.max_price_age_secs >= 0) THEN "AmountRange"
    ELSE IF ~feed.fresh THEN "StalePrice"
    ELSE IF conv[1] # "Ok" THEN conv[1]
    ELSE check_price_deviation(reg.token_usd_price_8d, conv[2],
                               max_price_deviation_bps)

update_token_price_from_pyth(feed, max_price_deviation_bps) ==
    /\ update_token_price_from_pyth_check(feed, max_price_deviation_bps) = "Ok"
    /\ reg' = [reg EXCEPT
                 !.token_usd_price_8d =
                     convert_pyth_price(feed.price, feed.exponent)[2],
                 !.prices_updated_at = now]
    /\ out' = <<>>
    /\ UNCHANGED <<desk, cons, offers, now, ticks, treasury, otherTreasury, deskUsdc, deskSol>>

----------------------------------------------------------------------------
(* Pool prices: set_token_pool_config, configure_pool_oracle,               *)
(* update_token_price_from_pool, update_token_price_from_pumpswap           *)

set_token_pool_config_check(signer) ==
    IF ~(signer = desk.owner \/ signer = reg.registered_by) THEN "NotOwner"
    ELSE "Ok"

\* pool_type: "Raydium", "Orca", "PumpSwap", anything else is stored as "None"
set_token_pool_config(signer, pool_address, pool_type) ==
    /\ set_token_pool_config_check(signer) = "Ok"
    /\ reg' = [reg EXCEPT
                 !.pool_address = pool_address,
                 !.pool_type = IF pool_type \in {"Raydium", "Orca", "PumpSwap"}
                               THEN pool_type ELSE "None"]
    /\ out' = <<>>
    /\ UNCHANGED <<desk, cons, offers, now, ticks, treasury, otherTreasury, deskUsdc, deskSol>>

configure_pool_oracle_check(owner, min_liquidity, max_twap_deviation_bps, min_update_interval_secs) ==
    IF ~(owner = desk.owner) THEN "NotOwner"
    ELSE IF ~(min_update_interval_secs >= MIN_UPDATE_INTERVAL_SECS) THEN "AmountRange"
    ELSE IF ~(max_twap_deviation_bps <= MAX_TWAP_DEVIATION_BPS) THEN "AmountRange"
    ELSE "Ok"

configure_pool_oracle(owner, min_liquidity, max_twap_deviation_bps, min_update_interval_secs) ==
    /\ configure_pool_oracle_check(owner, min_liquidity, max_twap_deviation_bps,
                                   min_update_interval_secs) = "Ok"
    /\ reg' = [reg EXCEPT
                 !.min_liquidity = min_liquidity,
                 !.max_twap_deviation_bps = max_twap_deviation_bps,
                 !.min_update_interval_secs = min_update_interval_secs]
    /\ out' = <<>>
    /\ UNCHANGED <<desk, cons, offers, now, ticks, treasury, otherTreasury, deskUsdc, deskSol>>

\* pool: the accounts passed, the record [key, program, amount_a, amount_b]
\* of the pool's key, the program that owns it and the balances of the
\* token vault and the quote vault
SpotPrice(pool) ==
    mul_div_u128(pool.amount_b, USD_SCALE_8D * pow10(reg.decimals),
                 pool.amount_a * pow10(QUOTE_DECIMALS))

\* EmaPrice with the weight on the spot price
EmaPrice_SpotWeighted(spot) ==
    LET time_elapsed == now - reg.twap_last_timestamp
        weight == IF time_elapsed < MAX_EMA_WEIGHT THEN time_elapsed
                  ELSE MAX_EMA_WEIGHT
    IN (reg.token_usd_price_8d + (spot * weight)) \div (weight + 1)

\* the smoothed price of a spot price, where smoothing applies
EmaPrice(spot) ==
    LET time_elapsed == now - reg.twap_last_timestamp
        weight == IF time_elapsed < MAX_EMA_WEIGHT THEN time_elapsed
                  ELSE MAX_EMA_WEIGHT
    IN ((reg.token_usd_price_8d * weight) + spot) \div (weight + 1)

Smooths ==
    /\ reg.twap_last_timestamp > 0
    /\ reg.max_twap_deviation_bps > 0
    /\ now - reg.twap_last_timestamp > 0

update_token_price_from_pool_check(pool) ==
    IF ~(pool.key = reg.pool_address) THEN "BadState"
    ELSE IF ~(reg.pool_address # DefaultKey) THEN "FeedNotConfigured"
    ELSE IF ~reg.is_active THEN "BadState"
    ELSE IF reg.prices_updated_at > 0
            /\ ~(now - reg.prices_updated_at >= reg.min_update_interval_secs)
         THEN "UpdateTooFrequent"
    ELSE IF reg.pool_type = "None" THEN "InvalidPoolProgram"
    ELSE IF ~(pool.program = reg.pool_type) THEN "InvalidPoolProgram"
    ELSE IF ~(pool.amount_a > 0 /\ pool.amount_b > 0) THEN "StalePrice"
    ELSE IF reg.min_liquidity > 0 /\ ~(pool.amount_b >= reg.min_liquidity)
         THEN "InsufficientLiquidity"
    ELSE IF ~(SpotPrice(pool) > 0) THEN "BadPrice"
    ELSE IF Smooths
         THEN LET spot == SpotPrice(pool)
                  ema_price == EmaPrice(spot)
                  deviation == IF spot > ema_price THEN spot - ema_price
                               ELSE ema_price - spot
                  max_deviation ==
                      (ema_price * reg.max_twap_deviation_bps) \div BPS_DENOM
              IN IF ~(deviation <= max_deviation) THEN "TwapDeviationTooLarge"
                 ELSE "Ok"
    ELSE "Ok"

update_token_price_from_pool(pool) ==
    /\ update_token_price_from_pool_check(pool) = "Ok"
    /\ LET spot_price_8d == SpotPrice(pool)
           final_price == IF Smooths THEN EmaPrice(spot_price_8d)
                          ELSE spot_price_8d
       IN reg' = [reg EXCEPT !.twap_last_price = spot_price_8d,
                             !.twap_last_timestamp = now,
                             !.token_usd_price_8d = final_price,
                             !.prices_updated_at = now]
    /\ out' = <<>>
    /\ UNCHANGED <<desk, cons, offers, now, ticks, treasury, otherTreasury, deskUsdc, deskSol>>

\* curve: the accounts passed, the record [key, sol, tokens] of the bonding
\* curve's key, its balance in whole SOL and the balance of its token vault
\* (a balance of sol * 10^9 lamports against the divisor 10^17)
PumpswapPrice(curve, sol_usd_price_8d) ==
    mul_div_u128(curve.sol, sol_usd_price_8d * pow10(reg.decimals),
                 curve.tokens * USD_SCALE_8D)

update_token_price_from_pumpswap_check(curve, sol_usd_price_8d) ==
    IF ~(reg.pool_type = "PumpSwap") THEN "BadState"
    ELSE IF ~(curve.key = reg.pool_address) THEN "BadState"
    ELSE IF ~(reg.pool_address # DefaultKey) THEN "FeedNotConfigured"
    ELSE IF ~(sol_usd_price_8d > 0) THEN "BadPrice"
    ELSE IF ~(curve.sol > 0 /\ curve.tokens > 0) THEN "StalePrice"
    ELSE IF ~(PumpswapPrice(curve, sol_usd_price_8d) > 0) THEN "BadPrice"
    ELSE "Ok"

update_token_price_from_pumpswap(curve, sol_usd_price_8d) ==
    /\ update_token_price_from_pumpswap_check(curve, sol_usd_price_8d) = "Ok"
    /\ reg' = [reg EXCEPT
                 !.token_usd_price_8d = PumpswapPrice(curve, sol_usd_price_8d),
                 !.prices_updated_at = now]
    /\ out' = <<>>
    /\ UNCHANGED <<desk, cons, offers, now, ticks, treasury, otherTreasury, deskUsdc, deskSol>>

----------------------------------------------------------------------------
(* create_consignment *)

create_consignment_check(amount, t) ==
    IF desk.paused THEN "Paused"
    ELSE IF ~(amount > 0) THEN "AmountRange"
    ELSE IF ~(t.min_deal_amount <= t.max_deal_amount) THEN "AmountRange"
    ELSE IF ~(t.min_discount_bps <= t.max_discount_bps) THEN "Discount"
    ELSE IF ~(t.max_discount_bps <= BPS_DENOM) THEN "Discount"
    ELSE IF ~(t.fixed_discount_bps <= BPS_DENOM) THEN "Discount"
    ELSE IF ~(t.min_lockup_days <= t.max_lockup_days) THEN "LockupTooLong"
    ELSE "Ok"

\* the asset a transfer of a mint's tokens moves
AssetOf(mint) == IF mint = TOKEN_MINT THEN "TOKEN" ELSE "OTHER"

\* the desk's token account of a mint
TreasuryOf(mint) == IF mint = TOKEN_MINT THEN treasury ELSE otherTreasury

\* t: the terms arguments of the instruction and the mint passed
\* (is_fractionalized, max_time_to_execute_secs and created_at are stored
\* and never read)
create_consignment(consigner, amount, t) ==
    /\ create_consignment_check(amount, t) = "Ok"
    /\ treasury' = IF t.token_mint = TOKEN_MINT THEN treasury + amount
                   ELSE treasury
    /\ otherTreasury' = IF t.token_mint = TOKEN_MINT THEN otherTreasury
                        ELSE otherTreasury + amount
    /\ desk' = [desk EXCEPT !.next_consignment_id = @ + 1]
    /\ cons' = Append(cons,
         [id |-> desk.next_consignment_id,
          consigner |-> consigner,
          token_mint |-> t.token_mint,
          total_amount |-> amount,
          remaining_amount |-> amount,
          is_negotiable |-> t.is_negotiable,
          fixed_discount_bps |-> t.fixed_discount_bps,
          fixed_lockup_days |-> t.fixed_lockup_days,
          min_discount_bps |-> t.min_discount_bps,
          max_discount_bps |-> t.max_discount_bps,
          min_lockup_days |-> t.min_lockup_days,
          max_lockup_days |-> t.max_lockup_days,
          min_deal_amount |-> t.min_deal_amount,
          max_deal_amount |-> t.max_deal_amount,
          is_private |-> t.is_private,
          max_price_volatility_bps |-> t.max_price_volatility_bps,
          is_active |-> TRUE])
    /\ out' = <<Transfer(AssetOf(t.token_mint), consigner, DESK, amount)>>
    /\ UNCHANGED <<reg, offers, now, ticks, deskUsdc, deskSol>>

----------------------------------------------------------------------------
(* create_offer *)

\* #[account(init_if_needed)] offer: the instruction accepts an Offer account
\* that does not exist yet as well as one that does.  Account keys carry no
\* meaning, so a new account always takes the lowest unused slot.
OfferSlotUsable(o) ==
    \/ IsOffer(o)
    \/ \A p \in DOMAIN offers : p < o => IsOffer(p)

\* create_offer rejecting a value equal to the desk minimum
create_offer_check_StrictMinUsd(token_amount, discount_bps, currency, lockup_secs) ==
    IF desk.paused THEN "Paused"
    ELSE IF ~reg.is_active THEN "BadState"
    ELSE IF ~(currency = 0 \/ currency = 1) THEN "UnsupportedCurrency"
    ELSE IF ~(token_amount > 0) THEN "AmountRange"
    ELSE IF ~(discount_bps <= BPS_DENOM) THEN "Discount"
    ELSE IF ~(reg.token_usd_price_8d > 0) THEN "NoPrice"
    ELSE IF reg.prices_updated_at > 0
            /\ ~(now - reg.prices_updated_at <= desk.max_price_age_secs)
         THEN "StalePrice"
    ELSE IF ~(calc_discounted_usd(token_amount, reg.token_usd_price_8d,
                                  reg.decimals, discount_bps)
              > desk.min_usd_amount_8d) THEN "MinUsd"
    ELSE IF ~(lockup_secs >= desk.default_unlock_delay_secs
              /\ lockup_secs <= desk.max_lockup_secs) THEN "AmountRange"
    ELSE "Ok"

create_offer_check(token_amount, discount_bps, currency, lockup_secs) ==
    IF desk.paused THEN "Paused"
    ELSE IF ~reg.is_active THEN "BadState"
    ELSE IF ~(currency = 0 \/ currency = 1) THEN "UnsupportedCurrency"
    ELSE IF ~(token_amount > 0) THEN "AmountRange"
    ELSE IF ~(discount_bps <= BPS_DENOM) THEN "Discount"
    ELSE IF ~(reg.token_usd_price_8d > 0) THEN "NoPrice"
    ELSE IF reg.prices_updated_at > 0
            /\ ~(now - reg.prices_updated_at <= desk.max_price_age_secs)
         THEN "StalePrice"
    ELSE IF ~(calc_discounted_usd(token_amount, reg.token_usd_price_8d,
                                  reg.decimals, discount_bps)
              >= desk.min_usd_amount_8d) THEN "MinUsd"
    ELSE IF ~(lockup_secs >= desk.default_unlock_delay_secs
              /\ lockup_secs <= desk.max_lockup_secs) THEN "AmountRange"
    ELSE "Ok"

create_offer(o, beneficiary, token_amount, discount_bps, currency, lockup_secs) ==
    /\ OfferSlotUsable(o)
    /\ create_offer_check(token_amount, discount_bps, currency, lockup_secs) = "Ok"
    /\ desk' = [desk EXCEPT !.next_offer_id = @ + 1]
    /\ offers' = [offers EXCEPT ![o] =
         [consignment_id |-> 0,
          token_decimals |-> reg.decimals,
          id |-> desk.next_offer_id,
          beneficiary |-> beneficiary,
          token_amount |-> token_amount,
          discount_bps |-> discount_bps,
          created_at |-> now,
          unlock_time |-> now + lockup_secs,
          price_usd_per_token_8d |-> reg.token_usd_price_8d,
          max_price_deviation_bps |-> 0,
          sol_usd_price_8d |-> IF currency = 0 THEN desk.sol_usd_price_8d ELSE 0,
          currency |-> currency,
          approved |-> FALSE,
          paid |-> FALSE,
          fulfilled |-> FALSE,
          cancelled |-> FALSE,
          payer |-> DefaultKey,
          amount_paid |-> 0,
          agent_commission_bps |-> 0]]
    /\ out' = <<Event("OfferCreated", o)>>
    /\ UNCHANGED <<reg, cons, now, ticks, treasury, otherTreasury, deskUsdc, deskSol>>

----------------------------------------------------------------------------
(* create_offer_from_consignment *)

\* create_offer_from_consignment with the require on min_usd_amount_8d left out
create_offer_from_consignment_check_NoMinUsd(c, beneficiary, token_amount, discount_bps, currency, lockup_secs, agent_commission_bps) ==
    LET consignment == cons[c]
        lockup_days == RustDiv(lockup_secs, SECS_PER_DAY)
    IN
    IF desk.paused THEN "Paused"
    ELSE IF ~(currency = 0 \/ currency = 1) THEN "UnsupportedCurrency"
    ELSE IF ~consignment.is_active THEN "BadState"
    ELSE IF consignment.is_private
            /\ ~(\/ beneficiary = consignment.consigner
                 \/ beneficiary = desk.owner
                 \/ beneficiary = desk.agent
                 \/ IsApprover(beneficiary)) THEN "FulfillRestricted"
    ELSE IF ~(token_amount >= consignment.min_deal_amount
              /\ token_amount <= consignment.max_deal_amount) THEN "AmountRange"
    ELSE IF ~(token_amount <= consignment.remaining_amount) THEN "InsuffInv"
    ELSE IF consignment.is_negotiable
            /\ ~(discount_bps >= consignment.min_discount_bps
                 /\ discount_bps <= consignment.max_discount_bps) THEN "Discount"
    ELSE IF consignment.is_negotiable
            /\ ~(lockup_days >= consignment.min_lockup_days
                 /\ lockup_days <= consignment.max_lockup_days) THEN "LockupTooLong"
    ELSE IF consignment.is_negotiable
            /\ ~(agent_commission_bps >= MIN_NEGOTIATED_COMMISSION_BPS
                 /\ agent_commission_bps <= MAX_NEGOTIATED_COMMISSION_BPS)
         THEN "CommissionRange"
    ELSE IF ~consignment.is_negotiable
            /\ ~(discount_bps = consignment.fixed_discount_bps) THEN "Discount"
    ELSE IF ~consignment.is_negotiable
            /\ ~(lockup_days = consignment.fixed_lockup_days) THEN "LockupTooLong"
    ELSE IF ~(reg.token_mint = consignment.token_mint) THEN "BadState"
    ELSE IF ~(reg.token_usd_price_8d > 0) THEN "NoPrice"
    ELSE IF reg.prices_updated_at > 0
            /\ ~(now - reg.prices_updated_at <= desk.max_price_age_secs)
         THEN "StalePrice"
    ELSE "Ok"

\* create_offer_from_consignment without the require on the commission of a
\* negotiated deal
create_offer_from_consignment_check_AnyCommission(c, beneficiary, token_amount, discount_bps, currency, lockup_secs, agent_commission_bps) ==
    LET consignment == cons[c]
        lockup_days == RustDiv(lockup_secs, SECS_PER_DAY)
    IN
    IF desk.paused THEN "Paused"
    ELSE IF ~(currency = 0 \/ currency = 1) THEN "UnsupportedCurrency"
    ELSE IF ~consignment.is_active THEN "BadState"
    ELSE IF consignment.is_private
            /\ ~(\/ beneficiary = consignment.consigner
                 \/ beneficiary = desk.owner
                 \/ beneficiary = desk.agent
                 \/ IsApprover(beneficiary)) THEN "FulfillRestricted"
    ELSE IF ~(token_amount >= consignment.min_deal_amount
              /\ token_amount <= consignment.max_deal_amount) THEN "AmountRange"
    ELSE IF ~(token_amount <= consignment.remaining_amount) THEN "InsuffInv"
    ELSE IF consignment.is_negotiable
            /\ ~(discount_bps >= consignment.min_discount_bps
                 /\ discount_bps <= consignment.max_discount_bps) THEN "Discount"
    ELSE IF consignment.is_negotiable
            /\ ~(lockup_days >= consignment.min_lockup_days
                 /\ lockup_days <= consignment.max_lockup_days) THEN "LockupTooLong"
    ELSE IF ~consignment.is_negotiable
            /\ ~(discount_bps = consignment.fixed_discount_bps) THEN "Discount"
    ELSE IF ~consignment.is_negotiable
            /\ ~(lockup_days = consignment.fixed_lockup_days) THEN "LockupTooLong"
    ELSE IF ~(reg.token_mint = consignment.token_mint) THEN "BadState"
    ELSE IF ~(reg.token_usd_price_8d > 0) THEN "NoPrice"
    ELSE IF reg.prices_updated_at > 0
            /\ ~(now - reg.prices_updated_at <= desk.max_price_age_secs)
         THEN "StalePrice"
    ELSE IF ~(calc_discounted_usd(token_amount, reg.token_usd_price_8d,
                                  reg.decimals, discount_bps)
              >= desk.min_usd_amount_8d) THEN "MinUsd"
    ELSE "Ok"

\* create_offer_from_consignment with the require on the age of the price
\* left out
create_offer_from_consignment_check_AnyAge(c, beneficiary, token_amount, discount_bps, currency, lockup_secs, agent_commission_bps) ==
    LET consignment == cons[c]
        lockup_days == RustDiv(lockup_secs, SECS_PER_DAY)
    IN
    IF desk.paused THEN "Paused"
    ELSE IF ~(currency = 0 \/ currency = 1) THEN "UnsupportedCurrency"
    ELSE IF ~consignment.is_active THEN "BadState"
    ELSE IF consignment.is_private
            /\ ~(\/ beneficiary = consignment.consigner
                 \/ beneficiary = desk.owner
                 \/ beneficiary = desk.agent
                 \/ IsApprover(beneficiary)) THEN "FulfillRestricted"
    ELSE IF ~(token_amount >= consignment.min_deal_amount
              /\ token_amount <= consignment.max_deal_amount) THEN "AmountRange"
    ELSE IF ~(token_amount <= consignment.remaining_amount) THEN "InsuffInv"
    ELSE IF consignment.is_negotiable
            /\ ~(discount_bps >= consignment.min_discount_bps
                 /\ discount_bps <= consignment.max_discount_bps) THEN "Discount"
    ELSE IF consignment.is_negotiable
            /\ ~(lockup_days >= consignment.min_lockup_days
                 /\ lockup_days <= consignment.max_lockup_days) THEN "LockupTooLong"
    ELSE IF consignment.is_negotiable
            /\ ~(agent_commission_bps >= MIN_NEGOTIATED_COMMISSION_BPS
                 /\ agent_commission_bps <= MAX_NEGOTIATED_COMMISSION_BPS)
         THEN "CommissionRange"
    ELSE IF ~consignment.is_negotiable
            /\ ~(discount_bps = consignment.fixed_discount_bps) THEN "Discount"
    ELSE IF ~consignment.is_negotiable
            /\ ~(lockup_days = consignment.fixed_lockup_days) THEN "LockupTooLong"
    ELSE IF ~(reg.token_mint = consignment.token_mint) THEN "BadState"
    ELSE IF ~(reg.token_usd_price_8d > 0) THEN "NoPrice"
    ELSE IF ~(calc_discounted_usd(token_amount, reg.token_usd_price_8d,
                                  reg.decimals, discount_bps)
              >= desk.min_usd_amount_8d) THEN "MinUsd"
    ELSE "Ok"

\* create_offer_from_consignment treating every consignment as public
create_offer_from_consignment_check_Public(c, beneficiary, token_amount, discount_bps, currency, lockup_secs, agent_commission_bps) ==
    LET consignment == cons[c]
        lockup_days == RustDiv(lockup_secs, SECS_PER_DAY)
    IN
    IF desk.paused THEN "Paused"
    ELSE IF ~(currency = 0 \/ currency = 1) THEN "UnsupportedCurrency"
    ELSE IF ~consignment.is_active THEN "BadState"
    ELSE IF ~(token_amount >= consignment.min_deal_amount
              /\ token_amount <= consignment.max_deal_amount) THEN "AmountRange"
    ELSE IF ~(token_amount <= consignment.remaining_amount) THEN "InsuffInv"
    ELSE IF consignment.is_negotiable
            /\ ~(discount_bps >= consignment.min_discount_bps
                 /\ discount_bps <= consignment.max_discount_bps) THEN "Discount"
    ELSE IF consignment.is_negotiable
            /\ ~(lockup_days >= consignment.min_lockup_days
                 /\ lockup_days <= consignment.max_lockup_days) THEN "LockupTooLong"
    ELSE IF consignment.is_negotiable
            /\ ~(agent_commission_bps >= MIN_NEGOTIATED_COMMISSION_BPS
                 /\ agent_commission_bps <= MAX_NEGOTIATED_COMMISSION_BPS)
         THEN "CommissionRange"
    ELSE IF ~consignment.is_negotiable
            /\ ~(discount_bps = consignment.fixed_discount_bps) THEN "Discount"
    ELSE IF ~consignment.is_negotiable
            /\ ~(lockup_days = consignment.fixed_lockup_days) THEN "LockupTooLong"
    ELSE IF ~(reg.token_mint = consignment.token_mint) THEN "BadState"
    ELSE IF ~(reg.token_usd_price_8d > 0) THEN "NoPrice"
    ELSE IF reg.prices_updated_at > 0
            /\ ~(now - reg.prices_updated_at <= desk.max_price_age_secs)
         THEN "StalePrice"
    ELSE IF ~(calc_discounted_usd(token_amount, reg.token_usd_price_8d,
                                  reg.decimals, discount_bps)
              >= desk.min_usd_amount_8d) THEN "MinUsd"
    ELSE "Ok"

\* c: the Consignment account passed; consignment_id: the instruction argument
create_offer_from_consignment_check(c, beneficiary, token_amount, discount_bps, currency, lockup_secs, agent_commission_bps) ==
    LET consignment == cons[c]
        lockup_days == RustDiv(lockup_secs, SECS_PER_DAY)
    IN
    IF desk.paused THEN "Paused"
    ELSE IF ~(currency = 0 \/ currency = 1) THEN "UnsupportedCurrency"
    ELSE IF ~consignment.is_active THEN "BadState"
    ELSE IF consignment.is_private
            /\ ~(\/ beneficiary = consignment.consigner
                 \/ beneficiary = desk.owner
                 \/ beneficiary = desk.agent
                 \/ IsApprover(beneficiary)) THEN "FulfillRestricted"
    ELSE IF ~(token_amount >= consignment.min_deal_amount
              /\ token_amount <= consignment.max_deal_amount) THEN "AmountRange"
    ELSE IF ~(token_amount <= consignment.remaining_amount) THEN "InsuffInv"
    ELSE IF consignment.is_negotiable
            /\ ~(discount_bps >= consignment.min_discount_bps
                 /\ discount_bps <= consignment.max_discount_bps) THEN "Discount"
    ELSE IF consignment.is_negotiable
            /\ ~(lockup_days >= consignment.min_lockup_days
                 /\ lockup_days <= consignment.max_lockup_days) THEN "LockupTooLong"
    ELSE IF consignment.is_negotiable
            /\ ~(agent_commission_bps >= MIN_NEGOTIATED_COMMISSION_BPS
                 /\ agent_commission_bps <= MAX_NEGOTIATED_COMMISSION_BPS)
         THEN "CommissionRange"
    ELSE IF ~consignment.is_negotiable
            /\ ~(discount_bps = consignment.fixed_discount_bps) THEN "Discount"
    ELSE IF ~consignment.is_negotiable
            /\ ~(lockup_days = consignment.fixed_lockup_days) THEN "LockupTooLong"
    ELSE IF ~(reg.token_mint = consignment.token_mint) THEN "BadState"
    ELSE IF ~(reg.token_usd_price_8d > 0) THEN "NoPrice"
    ELSE IF reg.prices_updated_at > 0
            /\ ~(now - reg.prices_updated_at <= desk.max_price_age_secs)
         THEN "StalePrice"
    ELSE IF ~(calc_discounted_usd(token_amount, reg.token_usd_price_8d,
                                  reg.decimals, discount_bps)
              >= desk.min_usd_amount_8d) THEN "MinUsd"
    ELSE "Ok"

\* create_offer_from_consignment storing approved = false for every offer
create_offer_from_consignment_Unapproved(o, c, consignment_id, beneficiary, token_amount, discount_bps, currency, lockup_secs, agent_commission_bps) ==
    /\ OfferSlotUsable(o)
    /\ c \in 1..Len(cons)
    /\ create_offer_from_consignment_check(c, beneficiary, token_amount,
           discount_bps, currency, lockup_secs, agent_commission_bps) = "Ok"
    /\ LET consignment == cons[c]
           effective_commission_bps ==
               IF consignment.is_negotiable THEN agent_commission_bps
               ELSE desk.p2p_commission_bps
           remaining == consignment.remaining_amount - token_amount
           auto_approved == ~consignment.is_negotiable
       IN
       /\ cons' = [cons EXCEPT ![c].remaining_amount = remaining,
                               ![c].is_active = IF remaining = 0 THEN FALSE ELSE @]
       /\ offers' = [offers EXCEPT ![o] =
            [consignment_id |-> consignment_id,
             token_decimals |-> reg.decimals,
             id |-> desk.next_offer_id,
             beneficiary |-> beneficiary,
             token_amount |-> token_amount,
             discount_bps |-> discount_bps,
             created_at |-> now,
             unlock_time |-> now + lockup_secs,
             price_usd_per_token_8d |-> reg.token_usd_price_8d,
             max_price_deviation_bps |-> consignment.max_price_volatility_bps,
             sol_usd_price_8d |-> IF currency = 0 THEN desk.sol_usd_price_8d ELSE 0,
             currency |-> currency,
             approved |-> FALSE,
             paid |-> FALSE,
             fulfilled |-> FALSE,
             cancelled |-> FALSE,
             payer |-> DefaultKey,
             amount_paid |-> 0,
             agent_commission_bps |-> effective_commission_bps]]
       /\ out' = <<Event("OfferCreated", o)>>
                 \o (IF auto_approved
                     THEN <<Event("OfferApproved", o)>>
                     ELSE <<>>)
    /\ desk' = [desk EXCEPT !.next_offer_id = @ + 1]
    /\ UNCHANGED <<reg, now, ticks, treasury, otherTreasury, deskUsdc, deskSol>>

create_offer_from_consignment(o, c, consignment_id, beneficiary, token_amount, discount_bps, currency, lockup_secs, agent_commission_bps) ==
    /\ OfferSlotUsable(o)
    /\ c \in 1..Len(cons)
    /\ create_offer_from_consignment_check(c, beneficiary, token_amount,
           discount_bps, currency, lockup_secs, agent_commission_bps) = "Ok"
    /\ LET consignment == cons[c]
           effective_commission_bps ==
               IF consignment.is_negotiable THEN agent_commission_bps
               ELSE desk.p2p_commission_bps
           remaining == consignment.remaining_amount - token_amount
           auto_approved == ~consignment.is_negotiable
       IN
       /\ cons' = [cons EXCEPT ![c].remaining_amount = remaining,
                               ![c].is_active = IF remaining = 0 THEN FALSE ELSE @]
       /\ offers' = [offers EXCEPT ![o] =
            [consignment_id |-> consignment_id,
             token_decimals |-> reg.decimals,
             id |-> desk.next_offer_id,
             beneficiary |-> beneficiary,
             token_amount |-> token_amount,
             discount_bps |-> discount_bps,
             created_at |-> now,
             unlock_time |-> now + lockup_secs,
             price_usd_per_token_8d |-> reg.token_usd_price_8d,
             max_price_deviation_bps |-> consignment.max_price_volatility_bps,
             sol_usd_price_8d |-> IF currency = 0 THEN desk.sol_usd_price_8d ELSE 0,
             currency |-> currency,
             approved |-> auto_approved,
             paid |-> FALSE,
             fulfilled |-> FALSE,
             cancelled |-> FALSE,
             payer |-> DefaultKey,
             amount_paid |-> 0,
             agent_commission_bps |-> effective_commission_bps]]
       /\ out' = <<Event("OfferCreated", o)>>
                 \o (IF auto_approved
                     THEN <<Event("OfferApproved", o)>>
                     ELSE <<>>)
    /\ desk' = [desk EXCEPT !.next_offer_id = @ + 1]
    /\ UNCHANGED <<reg, now, ticks, treasury, otherTreasury, deskUsdc, deskSol>>

----------------------------------------------------------------------------
(* withdraw_consignment *)

\* withdraw_consignment with the require on is_active left out
withdraw_consignment_check_NoActive(c, caller) ==
    LET consignment == cons[c] IN
    IF ~(consignment.consigner = caller) THEN "NotOwner"
    ELSE IF ~(consignment.remaining_amount > 0) THEN "AmountRange"
    ELSE IF TreasuryOf(consignment.token_mint) < consignment.remaining_amount
         THEN "TransferFailed"
    ELSE "Ok"

withdraw_consignment_check(c, caller) ==
    LET consignment == cons[c] IN
    IF ~(consignment.consigner = caller) THEN "NotOwner"
    ELSE IF ~consignment.is_active THEN "BadState"
    ELSE IF ~(consignment.remaining_amount > 0) THEN "AmountRange"
    ELSE IF TreasuryOf(consignment.token_mint) < consignment.remaining_amount
         THEN "TransferFailed"
    ELSE "Ok"

withdraw_consignment(c, caller) ==
    /\ c \in 1..Len(cons)
    /\ withdraw_consignment_check(c, caller) = "Ok"
    /\ cons' = [cons EXCEPT ![c].is_active = FALSE, ![c].remaining_amount = 0]
    /\ treasury' = IF cons[c].token_mint = TOKEN_MINT
                   THEN treasury - cons[c].remaining_amount ELSE treasury
    /\ otherTreasury' = IF cons[c].token_mint = TOKEN_MINT THEN otherTreasury
                        ELSE otherTreasury - cons[c].remaining_amount
    /\ out' = <<Transfer(AssetOf(cons[c].token_mint), DESK, caller,
                         cons[c].remaining_amount)>>
    /\ UNCHANGED <<desk, reg, offers, now, ticks, deskUsdc, deskSol>>

----------------------------------------------------------------------------
(* approve_offer *)

\* must_be_approver
must_be_approver(who) == who = desk.agent \/ IsApprover(who)

\* approve_offer with its !offer.approved require missing
approve_offer_check_Reapprove(o, c, approver) ==
    IF ~(cons[c].id = offers[o].consignment_id) THEN "BadState"
    ELSE IF desk.paused THEN "Paused"
    ELSE IF ~must_be_approver(approver) THEN "NotApprover"
    ELSE IF ~(~offers[o].cancelled /\ ~offers[o].paid) THEN "BadState"
    ELSE IF ~cons[c].is_negotiable THEN "NonNegotiableP2P"
    ELSE "Ok"

\* c: the Consignment account passed; the accounts struct requires
\* consignment.id == offer.consignment_id
approve_offer_check(o, c, approver) ==
    IF ~(cons[c].id = offers[o].consignment_id) THEN "BadState"
    ELSE IF desk.paused THEN "Paused"
    ELSE IF ~must_be_approver(approver) THEN "NotApprover"
    ELSE IF ~(~offers[o].cancelled /\ ~offers[o].paid) THEN "BadState"
    ELSE IF offers[o].approved THEN "AlreadyApproved"
    ELSE IF ~cons[c].is_negotiable THEN "NonNegotiableP2P"
    ELSE "Ok"

approve_offer(o, c, approver) ==
    /\ IsOffer(o)
    /\ c \in 1..Len(cons)
    /\ approve_offer_check(o, c, approver) = "Ok"
    /\ offers' = [offers EXCEPT ![o].approved = TRUE]
    /\ out' = <<Event("OfferApproved", o)>>
    /\ UNCHANGED <<desk, reg, cons, now, ticks, treasury, otherTreasury, deskUsdc, deskSol>>

----------------------------------------------------------------------------
(* cancel_offer and cancel_offer_with_consignment *)

\* cancel_offer with !offer.paid missing from its state require
cancel_offer_check_Paid(o, caller) ==
    IF desk.paused THEN "Paused"
    ELSE IF ~(~offers[o].fulfilled) THEN "BadState"
    ELSE IF caller = offers[o].beneficiary
         THEN (IF ~(now >= offers[o].created_at + desk.quote_expiry_secs)
               THEN "NotExpired" ELSE "Ok")
    ELSE IF caller = desk.owner \/ caller = desk.agent \/ IsApprover(caller)
         THEN "Ok"
    ELSE "NotApprover"

\* cancel_offer with the beneficiary's expiry require missing
cancel_offer_check_NoExpiry(o, caller) ==
    IF desk.paused THEN "Paused"
    ELSE IF ~(~offers[o].paid /\ ~offers[o].fulfilled) THEN "BadState"
    ELSE IF caller = offers[o].beneficiary THEN "Ok"
    ELSE IF caller = desk.owner \/ caller = desk.agent \/ IsApprover(caller)
         THEN "Ok"
    ELSE "NotApprover"

\* cancel_offer with the role test made before the beneficiary test
cancel_offer_check_RoleFirst(o, caller) ==
    IF desk.paused THEN "Paused"
    ELSE IF ~(~offers[o].paid /\ ~offers[o].fulfilled) THEN "BadState"
    ELSE IF caller = desk.owner \/ caller = desk.agent \/ IsApprover(caller)
         THEN "Ok"
    ELSE IF caller = offers[o].beneficiary
         THEN (IF ~(now >= offers[o].created_at + desk.quote_expiry_secs)
               THEN "NotExpired" ELSE "Ok")
    ELSE "NotApprover"

cancel_offer_check(o, caller) ==
    IF desk.paused THEN "Paused"
    ELSE IF ~(~offers[o].paid /\ ~offers[o].fulfilled) THEN "BadState"
    ELSE IF caller = offers[o].beneficiary
         THEN (IF ~(now >= offers[o].created_at + desk.quote_expiry_secs)
               THEN "NotExpired" ELSE "Ok")
    ELSE IF caller = desk.owner \/ caller = desk.agent \/ IsApprover(caller)
         THEN "Ok"
    ELSE "NotApprover"

cancel_offer(o, caller) ==
    /\ IsOffer(o)
    /\ cancel_offer_check(o, caller) = "Ok"
    /\ offers' = [offers EXCEPT ![o].cancelled = TRUE]
    /\ out' = <<Event("OfferCancelled", o)>>
    /\ UNCHANGED <<desk, reg, cons, now, ticks, treasury, otherTreasury, deskUsdc, deskSol>>

cancel_offer_with_consignment_check(o, c, caller) ==
    IF ~(cons[c].id = offers[o].consignment_id) THEN "BadState"
    ELSE IF desk.paused THEN "Paused"
    ELSE IF ~(~offers[o].paid /\ ~offers[o].fulfilled /\ ~offers[o].cancelled)
         THEN "BadState"
    ELSE IF ~(offers[o].consignment_id > 0) THEN "BadState"
    ELSE IF caller = offers[o].beneficiary
         THEN (IF ~(now >= offers[o].created_at + desk.quote_expiry_secs)
               THEN "NotExpired" ELSE "Ok")
    ELSE IF caller = desk.owner \/ caller = desk.agent \/ IsApprover(caller)
         THEN "Ok"
    ELSE "NotApprover"

cancel_offer_with_consignment(o, c, caller) ==
    /\ IsOffer(o)
    /\ c \in 1..Len(cons)
    /\ cancel_offer_with_consignment_check(o, c, caller) = "Ok"
    /\ offers' = [offers EXCEPT ![o].cancelled = TRUE]
    /\ cons' = [cons EXCEPT
                  ![c].remaining_amount = @ + offers[o].token_amount,
                  ![c].is_active = TRUE]
    /\ out' = <<Event("OfferCancelled", o)>>
    /\ UNCHANGED <<desk, reg, now, ticks, treasury, otherTreasury, deskUsdc, deskSol>>

----------------------------------------------------------------------------
(* fulfill_offer_usdc and fulfill_offer_sol *)

\* the Option<...> agent payout account not supplied
None == "None"

OfferUsd(o) ==
    calc_discounted_usd(offers[o].token_amount, offers[o].price_usd_per_token_8d,
                        offers[o].token_decimals, offers[o].discount_bps)

CommissionUsd(o) ==
    (OfferUsd(o) * offers[o].agent_commission_bps) \div BPS_DENOM

UsdcAmount(o) == mul_div_ceil_u128(OfferUsd(o), USDC_UNIT, USD_SCALE_8D)

CommissionUsdc(o) == mul_div_u128(CommissionUsd(o), USDC_UNIT, USD_SCALE_8D)

\* fulfill_offer_usdc with the require on the quote expiry left out
fulfill_offer_usdc_check_NoExpiry(o, payer, agent_ata_owner) ==
    IF desk.paused THEN "Paused"
    ELSE IF ~(offers[o].currency = 1) THEN "BadState"
    ELSE IF ~offers[o].approved THEN "NotApproved"
    ELSE IF ~(~offers[o].cancelled /\ ~offers[o].paid /\ ~offers[o].fulfilled)
         THEN "BadState"
    ELSE IF ~(treasury >= offers[o].token_amount) THEN "InsuffInv"
    ELSE IF desk.restrict_fulfill
            /\ ~(\/ payer = offers[o].beneficiary
                 \/ payer = desk.owner
                 \/ payer = desk.agent
                 \/ IsApprover(payer)) THEN "FulfillRestricted"
    ELSE IF CommissionUsdc(o) > 0 /\ agent_ata_owner # None
            /\ ~(agent_ata_owner = desk.agent) THEN "BadState"
    ELSE IF CommissionUsdc(o) > 0 /\ agent_ata_owner # None
            /\ deskUsdc + UsdcAmount(o) < CommissionUsdc(o) THEN "TransferFailed"
    ELSE "Ok"

\* agent_ata_owner: the owner of the optional agent_usdc_ata, or None
\* fulfill_offer_usdc refusing a pay whose commission has no destination
fulfill_offer_usdc_check_NeedsAgent(o, payer, agent_ata_owner) ==
    IF desk.paused THEN "Paused"
    ELSE IF ~(offers[o].currency = 1) THEN "BadState"
    ELSE IF ~offers[o].approved THEN "NotApproved"
    ELSE IF ~(~offers[o].cancelled /\ ~offers[o].paid /\ ~offers[o].fulfilled)
         THEN "BadState"
    ELSE IF ~(now <= offers[o].created_at + desk.quote_expiry_secs) THEN "Expired"
    ELSE IF ~(treasury >= offers[o].token_amount) THEN "InsuffInv"
    ELSE IF desk.restrict_fulfill
            /\ ~(\/ payer = offers[o].beneficiary
                 \/ payer = desk.owner
                 \/ payer = desk.agent
                 \/ IsApprover(payer)) THEN "FulfillRestricted"
    ELSE IF CommissionUsdc(o) > 0
            /\ ~(agent_ata_owner = desk.agent) THEN "BadState"
    ELSE IF CommissionUsdc(o) > 0 /\ agent_ata_owner # None
            /\ deskUsdc + UsdcAmount(o) < CommissionUsdc(o) THEN "TransferFailed"
    ELSE "Ok"

fulfill_offer_usdc_check(o, payer, agent_ata_owner) ==
    IF desk.paused THEN "Paused"
    ELSE IF ~(offers[o].currency = 1) THEN "BadState"
    ELSE IF ~offers[o].approved THEN "NotApproved"
    ELSE IF ~(~offers[o].cancelled /\ ~offers[o].paid /\ ~offers[o].fulfilled)
         THEN "BadState"
    ELSE IF ~(now <= offers[o].created_at + desk.quote_expiry_secs) THEN "Expired"
    ELSE IF ~(treasury >= offers[o].token_amount) THEN "InsuffInv"
    ELSE IF desk.restrict_fulfill
            /\ ~(\/ payer = offers[o].beneficiary
                 \/ payer = desk.owner
                 \/ payer = desk.agent
                 \/ IsApprover(payer)) THEN "FulfillRestricted"
    ELSE IF CommissionUsdc(o) > 0 /\ agent_ata_owner # None
            /\ ~(agent_ata_owner = desk.agent) THEN "BadState"
    ELSE IF CommissionUsdc(o) > 0 /\ agent_ata_owner # None
            /\ deskUsdc + UsdcAmount(o) < CommissionUsdc(o) THEN "TransferFailed"
    ELSE "Ok"

fulfill_offer_usdc(o, payer, agent_ata_owner) ==
    /\ IsOffer(o)
    /\ fulfill_offer_usdc_check(o, payer, agent_ata_owner) = "Ok"
    /\ LET usdc_amount == UsdcAmount(o)
           commission_usdc == CommissionUsdc(o)
           pays_commission == commission_usdc > 0 /\ agent_ata_owner # None
       IN
       /\ deskUsdc' = deskUsdc + usdc_amount
                      - (IF pays_commission THEN commission_usdc ELSE 0)
       /\ offers' = [offers EXCEPT ![o].amount_paid = usdc_amount,
                                   ![o].payer = payer,
                                   ![o].paid = TRUE]
       /\ out' = <<Transfer("USDC", payer, DESK, usdc_amount)>>
                 \o (IF pays_commission
                     THEN <<Transfer("USDC", DESK, desk.agent, commission_usdc),
                            Event("AgentCommissionPaid", o)>>
                     ELSE <<>>)
                 \o <<Event("OfferPaid", o)>>
    /\ UNCHANGED <<desk, reg, cons, now, ticks, treasury, otherTreasury, deskSol>>

SolUsd(o) ==
    IF offers[o].sol_usd_price_8d > 0 THEN offers[o].sol_usd_price_8d
    ELSE desk.sol_usd_price_8d

LamportsReq(o) == mul_div_ceil_u128(OfferUsd(o), LAMPORTS_PER_SOL, SolUsd(o))

CommissionLamports(o) == mul_div_u128(CommissionUsd(o), LAMPORTS_PER_SOL, SolUsd(o))

\* fulfill_offer_sol with !offer.paid missing from its state require
fulfill_offer_sol_check_Repay(o, payer, agent_account) ==
    IF desk.paused THEN "Paused"
    ELSE IF ~(offers[o].currency = 0) THEN "BadState"
    ELSE IF ~offers[o].approved THEN "NotApproved"
    ELSE IF ~(~offers[o].cancelled /\ ~offers[o].fulfilled) THEN "BadState"
    ELSE IF ~(now <= offers[o].created_at + desk.quote_expiry_secs) THEN "Expired"
    ELSE IF ~(treasury >= offers[o].token_amount) THEN "InsuffInv"
    ELSE IF desk.restrict_fulfill
            /\ ~(\/ payer = offers[o].beneficiary
                 \/ payer = desk.owner
                 \/ payer = desk.agent
                 \/ IsApprover(payer)) THEN "FulfillRestricted"
    ELSE IF ~(SolUsd(o) > 0) THEN "NoPrice"
    ELSE IF CommissionLamports(o) > 0 /\ agent_account # None
            /\ ~(agent_account = desk.agent) THEN "BadState"
    ELSE IF CommissionLamports(o) > 0 /\ agent_account # None
            /\ deskSol + LamportsReq(o) < CommissionLamports(o) THEN "TransferFailed"
    ELSE "Ok"

\* agent_account: the key of the optional agent account, or None
\* fulfill_offer_sol without the restrict_fulfill test
fulfill_offer_sol_check_Unrestricted(o, payer, agent_account) ==
    IF desk.paused THEN "Paused"
    ELSE IF ~(offers[o].currency = 0) THEN "BadState"
    ELSE IF ~offers[o].approved THEN "NotApproved"
    ELSE IF ~(~offers[o].cancelled /\ ~offers[o].paid /\ ~offers[o].fulfilled)
         THEN "BadState"
    ELSE IF ~(now <= offers[o].created_at + desk.quote_expiry_secs) THEN "Expired"
    ELSE IF ~(treasury >= offers[o].token_amount) THEN "InsuffInv"
    ELSE IF ~(SolUsd(o) > 0) THEN "NoPrice"
    ELSE IF CommissionLamports(o) > 0 /\ agent_account # None
            /\ ~(agent_account = desk.agent) THEN "BadState"
    ELSE IF CommissionLamports(o) > 0 /\ agent_account # None
            /\ deskSol + LamportsReq(o) < CommissionLamports(o) THEN "TransferFailed"
    ELSE "Ok"

fulfill_offer_sol_check(o, payer, agent_account) ==
    IF desk.paused THEN "Paused"
    ELSE IF ~(offers[o].currency = 0) THEN "BadState"
    ELSE IF ~offers[o].approved THEN "NotApproved"
    ELSE IF ~(~offers[o].cancelled /\ ~offers[o].paid /\ ~offers[o].fulfilled)
         THEN "BadState"
    ELSE IF ~(now <= offers[o].created_at + desk.quote_expiry_secs) THEN "Expired"
    ELSE IF ~(treasury >= offers[o].token_amount) THEN "InsuffInv"
    ELSE IF desk.restrict_fulfill
            /\ ~(\/ payer = offers[o].beneficiary
                 \/ payer = desk.owner
                 \/ payer = desk.agent
                 \/ IsApprover(payer)) THEN "FulfillRestricted"
    ELSE IF ~(SolUsd(o) > 0) THEN "NoPrice"
    ELSE IF CommissionLamports(o) > 0 /\ agent_account # None
            /\ ~(agent_account = desk.agent) THEN "BadState"
    ELSE IF CommissionLamports(o) > 0 /\ agent_account # None
            /\ deskSol + LamportsReq(o) < CommissionLamports(o) THEN "TransferFailed"
    ELSE "Ok"

fulfill_offer_sol(o, payer, agent_account) ==
    /\ IsOffer(o)
    /\ fulfill_offer_sol_check(o, payer, agent_account) = "Ok"
    /\ LET lamports_req == LamportsReq(o)
           commission_lamports == CommissionLamports(o)
           pays_commission == commission_lamports > 0 /\ agent_account # None
       IN
       /\ deskSol' = deskSol + lamports_req
                     - (IF pays_commission THEN commission_lamports ELSE 0)
       /\ offers' = [offers EXCEPT ![o].amount_paid = lamports_req,
                                   ![o].payer = payer,
                                   ![o].paid = TRUE]
       /\ out' = <<Transfer("SOL", payer, DESK, lamports_req)>>
                 \o (IF pays_commission
                     THEN <<Transfer("SOL", DESK, desk.agent, commission_lamports),
                            Event("AgentCommissionPaid", o)>>
                     ELSE <<>>)
                 \o <<Event("OfferPaid", o)>>
    /\ UNCHANGED <<desk, reg, cons, now, ticks, treasury, otherTreasury, deskUsdc>>

----------------------------------------------------------------------------
(* claim *)

\* claim with the require on unlock_time left out
claim_check_NoLock(o, beneficiary) ==
    IF desk.paused THEN "Paused"
    ELSE IF ~(beneficiary = offers[o].beneficiary) THEN "NotOwner"
    ELSE IF ~(offers[o].paid /\ ~offers[o].cancelled /\ ~offers[o].fulfilled)
         THEN "BadState"
    ELSE IF treasury < offers[o].token_amount THEN "TransferFailed"
    ELSE "Ok"

\* claim with the require on paid/cancelled/fulfilled left out
claim_check_AnyState(o, beneficiary) ==
    IF desk.paused THEN "Paused"
    ELSE IF ~(beneficiary = offers[o].beneficiary) THEN "NotOwner"
    ELSE IF ~(now >= offers[o].unlock_time) THEN "Locked"
    ELSE IF treasury < offers[o].token_amount THEN "TransferFailed"
    ELSE "Ok"

\* beneficiary: the (unchecked, non-signing) beneficiary account passed
claim_check(o, beneficiary) ==
    IF desk.paused THEN "Paused"
    ELSE IF ~(beneficiary = offers[o].beneficiary) THEN "NotOwner"
    ELSE IF ~(offers[o].paid /\ ~offers[o].cancelled /\ ~offers[o].fulfilled)
         THEN "BadState"
    ELSE IF ~(now >= offers[o].unlock_time) THEN "Locked"
    ELSE IF treasury < offers[o].token_amount THEN "TransferFailed"
    ELSE "Ok"

claim(o, beneficiary) ==
    /\ IsOffer(o)
    /\ claim_check(o, beneficiary) = "Ok"
    /\ treasury' = treasury - offers[o].token_amount
    /\ offers' = [offers EXCEPT ![o].fulfilled = TRUE]
    /\ out' = <<Transfer("TOKEN", DESK, offers[o].beneficiary, offers[o].token_amount),
                Event("TokensClaimed", o)>>
    /\ UNCHANGED <<desk, reg, cons, now, ticks, otherTreasury, deskUsdc, deskSol>>

----------------------------------------------------------------------------
(* withdraw_tokens *)

\* owner, desk_signer: the two signers of the instruction; the program makes
\* no check of the amount against what offers and consignments have reserved
withdraw_tokens_check(owner, desk_signer, amount) ==
    IF ~(owner = desk.owner) THEN "ConstraintHasOne"
    ELSE IF ~(desk_signer = DESK) THEN "NotOwner"
    ELSE IF ~reg.is_active THEN "BadState"
    ELSE IF treasury < amount THEN "TransferFailed"
    ELSE "Ok"

withdraw_tokens(owner, desk_signer, amount) ==
    /\ withdraw_tokens_check(owner, desk_signer, amount) = "Ok"
    /\ treasury' = treasury - amount
    /\ out' = <<Transfer("TOKEN", DESK, owner, amount)>>
    /\ UNCHANGED <<desk, reg, cons, offers, now, ticks, otherTreasury, deskUsdc,
                   deskSol>>

----------------------------------------------------------------------------
(* emergency_refund_sol and emergency_refund_usdc *)

emergency_refund_sol_check(o, caller) ==
    IF ~desk.emergency_refund_enabled THEN "BadState"
    ELSE IF ~(offers[o].paid /\ ~offers[o].fulfilled /\ ~offers[o].cancelled)
         THEN "BadState"
    ELSE IF ~(offers[o].currency = 0) THEN "BadState"
    ELSE IF ~(\/ now >= offers[o].created_at + desk.emergency_refund_deadline_secs
              \/ now >= offers[o].unlock_time + THIRTY_DAYS)
         THEN "TooEarlyForRefund"
    ELSE IF ~(\/ caller = offers[o].payer
              \/ caller = offers[o].beneficiary
              \/ caller = desk.owner
              \/ caller = desk.agent
              \/ IsApprover(caller)) THEN "NotOwner"
    ELSE IF deskSol < offers[o].amount_paid THEN "TransferFailed"
    ELSE "Ok"

emergency_refund_sol(o, caller) ==
    /\ IsOffer(o)
    /\ emergency_refund_sol_check(o, caller) = "Ok"
    /\ offers' = [offers EXCEPT ![o].cancelled = TRUE]
    /\ deskSol' = deskSol - offers[o].amount_paid
    /\ out' = <<Transfer("SOL", DESK, offers[o].payer, offers[o].amount_paid)>>
    /\ UNCHANGED <<desk, reg, cons, now, ticks, treasury, otherTreasury, deskUsdc>>

emergency_refund_usdc_check(o, caller) ==
    IF ~desk.emergency_refund_enabled THEN "BadState"
    ELSE IF ~(offers[o].paid /\ ~offers[o].fulfilled /\ ~offers[o].cancelled)
         THEN "BadState"
    ELSE IF ~(offers[o].currency = 1) THEN "BadState"
    ELSE IF ~(\/ now >= offers[o].created_at + desk.emergency_refund_deadline_secs
              \/ now >= offers[o].unlock_time + THIRTY_DAYS)
         THEN "TooEarlyForRefund"
    ELSE IF ~(\/ caller = offers[o].payer
              \/ caller = offers[o].beneficiary
              \/ caller = desk.owner
              \/ caller = desk.agent
              \/ IsApprover(caller)) THEN "NotOwner"
    ELSE IF deskUsdc < offers[o].amount_paid THEN "TransferFailed"
    ELSE "Ok"

\* emergency_refund_usdc without offer.cancelled = true
emergency_refund_usdc_NoCancel(o, caller) ==
    /\ IsOffer(o)
    /\ emergency_refund_usdc_check(o, caller) = "Ok"
    /\ offers' = offers
    /\ deskUsdc' = deskUsdc - offers[o].amount_paid
    /\ out' = <<Transfer("USDC", DESK, offers[o].payer, offers[o].amount_paid)>>
    /\ UNCHANGED <<desk, reg, cons, now, ticks, treasury, otherTreasury, deskSol>>

emergency_refund_usdc(o, caller) ==
    /\ IsOffer(o)
    /\ emergency_refund_usdc_check(o, caller) = "Ok"
    /\ offers' = [offers EXCEPT ![o].cancelled = TRUE]
    /\ deskUsdc' = deskUsdc - offers[o].amount_paid
    /\ out' = <<Transfer("USDC", DESK, offers[o].payer, offers[o].amount_paid)>>
    /\ UNCHANGED <<desk, reg, cons, now, ticks, treasury, otherTreasury, deskSol>>

----------------------------------------------------------------------------
(* The settlement life cycle: a configured desk and every instruction that  *)
(* writes an offer or a consignment                                         *)

\* terms of a negotiable consignment: discount 100..10000 bps, lockup 0..2 days
NegotiableTerms ==
    [is_negotiable |-> TRUE, fixed_discount_bps |-> 0, fixed_lockup_days |-> 0,
     min_discount_bps |-> 100, max_discount_bps |-> BPS_DENOM,
     min_lockup_days |-> 0, max_lockup_days |-> 2,
     min_deal_amount |-> 100, max_deal_amount |-> 500,
     is_private |-> FALSE, max_price_volatility_bps |-> 0,
     token_mint |-> TOKEN_MINT]

\* terms of a fixed-term consignment: discount 300 bps, lockup 1 day
FixedTerms ==
    [is_negotiable |-> FALSE, fixed_discount_bps |-> 300, fixed_lockup_days |-> 1,
     min_discount_bps |-> 0, max_discount_bps |-> 0,
     min_lockup_days |-> 0, max_lockup_days |-> 0,
     min_deal_amount |-> 100, max_deal_amount |-> 500,
     is_private |-> FALSE, max_price_volatility_bps |-> 0,
     token_mint |-> TOKEN_MINT]

ClockSteps == {MIN_QUOTE_EXPIRY_SECS, SECS_PER_DAY, THIRTY_DAYS}
WithdrawAmounts == {300}
Consigners == {"alice"}
ConsAmounts == {500}
ConsTerms == {NegotiableTerms, FixedTerms}
Beneficiaries == {"bob"}
OfferAmounts == {200, 300}
Discounts == {300, BPS_DENOM}
Currencies == {0, 1}
Lockups == {SECS_PER_DAY}
Commissions == {150}
Payers == {"bob", "alice"}
AgentAccounts == {None, AGENT}

\* the desk after init_desk(10000, 60), register_token (2 decimals),
\* set_approver("appr", true), set_emergency_refund(true, 30 days),
\* set_prices(.., 3000000, ..) and set_manual_token_price(10000) at StartTime
Init ==
    /\ desk = [InitDesk(10000, MIN_QUOTE_EXPIRY_SECS) EXCEPT
                 !.approvers = <<"appr">>,
                 !.emergency_refund_enabled = TRUE,
                 !.sol_usd_price_8d = 3000000]
    /\ reg = [RegisterToken(2, "None", "alice") EXCEPT
                 !.token_usd_price_8d = 10000,
                 !.prices_updated_at = StartTime]
    /\ cons = <<>>
    /\ offers = [o \in Slots |-> NoOffer]
    /\ now = StartTime
    /\ ticks = 0
    /\ treasury = 0
    /\ otherTreasury = 0
    /\ deskUsdc = 0
    /\ deskSol = 0
    /\ out = <<>>

Next ==
    \/ \E d \in ClockSteps : Tick(d)
    \/ \E k \in {OWNER, AGENT} : pause(k)
    \/ \E k \in {OWNER, AGENT} : unpause(k)
    \/ \E k \in Consigners, a \in ConsAmounts, t \in ConsTerms :
           Len(cons) < MaxCons /\ create_consignment(k, a, t)
    \/ \E o \in Slots, b \in Beneficiaries, a \in OfferAmounts, d \in Discounts,
          cur \in Currencies, l \in Lockups :
           desk.next_offer_id <= MaxOfferId /\ create_offer(o, b, a, d, cur, l)
    \/ \E o \in Slots, c \in 1..MaxCons, id \in 0..MaxCons, b \in Beneficiaries,
          a \in OfferAmounts, d \in Discounts, cur \in Currencies, l \in Lockups,
          m \in Commissions :
           /\ desk.next_offer_id <= MaxOfferId
           /\ create_offer_from_consignment(o, c, id, b, a, d, cur, l, m)
    \/ \E c \in 1..MaxCons, k \in Keys : withdraw_consignment(c, k)
    \/ \E o \in Slots, c \in 1..MaxCons, k \in Keys : approve_offer(o, c, k)
    \/ \E o \in Slots, k \in Keys : cancel_offer(o, k)
    \/ \E o \in Slots, c \in 1..MaxCons, k \in Keys :
           cancel_offer_with_consignment(o, c, k)
    \/ \E o \in Slots, k \in Payers, g \in AgentAccounts : fulfill_offer_usdc(o, k, g)
    \/ \E o \in Slots, k \in Payers, g \in AgentAccounts : fulfill_offer_sol(o, k, g)
    \/ \E o \in Slots, k \in Keys : claim(o, k)
    \/ \E k \in {OWNER, "bob"}, a \in WithdrawAmounts : withdraw_tokens(k, DESK, a)
    \/ \E o \in Slots, k \in Keys : emergency_refund_sol(o, k)
    \/ \E o \in Slots, k \in Keys : emergency_refund_usdc(o, k)

Spec == Init /\ [][Next]_vars

----------------------------------------------------------------------------
(* Properties of the settlement life cycle *)

\* the last step emitted the event `name` about offer account o
Emitted(name, o) == \E i \in 1..Len(out) : out[i] = Event(name, o)

\* the step emits the event `name` about offer account o
Emits(name, o) == \E i \in 1..Len(out') : out'[i] = Event(name, o)

\* the step leaves in account o the offer that was there (a create
\* instruction on an existing account stores a new offer with a new id)
SameOffer(o) == offers'[o].id = offers[o].id

\* C1: in every reachable state no offer has both fulfilled and cancelled
\* set, and every offer with fulfilled set also has paid set
C1_FulfilledIsPaidNotCancelled ==
    \A o \in DOMAIN offers :
        /\ ~(offers[o].fulfilled /\ offers[o].cancelled)
        /\ offers[o].fulfilled => offers[o].paid

\* a claim has just set fulfilled on a paid offer
C1_Witness ==
    \E o \in DOMAIN offers :
        offers[o].fulfilled /\ offers[o].paid /\ Emitted("TokensClaimed", o)

\* a paid offer rejects every pay call, whoever pays and in either currency
PayRejectedOncePaid ==
    \A o \in DOMAIN offers, k \in Keys, g \in AgentAccounts :
        offers[o].paid =>
            /\ fulfill_offer_usdc_check(o, k, g)
                   = IF desk.paused THEN "Paused" ELSE "BadState"
            /\ fulfill_offer_sol_check(o, k, g)
                   = IF desk.paused THEN "Paused" ELSE "BadState"

\* a pay step is taken from an unpaid offer, and what it wrote stays
PaidOnceStep ==
    \A o \in DOMAIN offers :
        /\ Emits("OfferPaid", o) => ~offers[o].paid /\ offers'[o].paid
        /\ (offers[o].paid /\ SameOffer(o)) =>
              /\ offers'[o].paid
              /\ offers'[o].payer = offers[o].payer
              /\ offers'[o].amount_paid = offers[o].amount_paid

\* C2: whatever the interleaving of fulfill_offer_sol / fulfill_offer_usdc
\* calls on one offer, at most one succeeds: the payment is collected from an
\* unpaid offer, payer and amount_paid are written once, and every later pay
\* call fails with BadState, so it moves no funds
C2_PaidAtMostOnce == []PayRejectedOncePaid /\ [][PaidOnceStep]_vars

\* alice has just paid an offer and bob's pay call on it is rejected
C2_Witness ==
    \E o \in DOMAIN offers :
        /\ Emitted("OfferPaid", o)
        /\ offers[o].payer = "alice"
        /\ fulfill_offer_sol_check(o, "bob", None) = "BadState"
        /\ fulfill_offer_usdc_check(o, "bob", None) = "BadState"

\* the conditions of claim on the offer of account o, called for key k
ClaimConditions(o, k) ==
    /\ k = offers[o].beneficiary
    /\ offers[o].paid /\ ~offers[o].cancelled /\ ~offers[o].fulfilled
    /\ now >= offers[o].unlock_time

\* the outcome of a claim call on an unpaused desk
ClaimOutcome ==
    \A o \in DOMAIN offers, k \in Keys :
        (IsOffer(o) /\ ~desk.paused) =>
            /\ claim_check(o, k) = "Ok" => ClaimConditions(o, k)
            /\ (ClaimConditions(o, k) /\ treasury >= offers[o].token_amount)
                  => claim_check(o, k) = "Ok"
            /\ (/\ k = offers[o].beneficiary
                /\ offers[o].paid /\ ~offers[o].cancelled /\ ~offers[o].fulfilled
                /\ now < offers[o].unlock_time)
                  => claim_check(o, k) = "Locked"
            /\ (k = offers[o].beneficiary /\ offers[o].fulfilled)
                  => claim_check(o, k) = "BadState"

\* what a claim step does, and that only a claim step sets fulfilled
ClaimStep ==
    \A o \in DOMAIN offers :
        /\ Emits("TokensClaimed", o) =>
              /\ ClaimConditions(o, offers[o].beneficiary)
              /\ offers' = [offers EXCEPT ![o].fulfilled = TRUE]
              /\ treasury' = treasury - offers[o].token_amount
              /\ out'[1] = Transfer("TOKEN", DESK, offers[o].beneficiary,
                                    offers[o].token_amount)
              /\ UNCHANGED <<desk, cons, deskUsdc, deskSol>>
        /\ (offers'[o].fulfilled /\ ~offers[o].fulfilled)
              => Emits("TokensClaimed", o)

\* C3: claim succeeds only for the offer's beneficiary on an offer that is
\* paid, not cancelled and not fulfilled, with now >= unlock_time; before
\* unlock_time it fails with Locked; the claim that succeeds transfers exactly
\* token_amount to the beneficiary and sets fulfilled; a claim on a fulfilled
\* offer fails with BadState, so the tokens of an offer are released once
C3_ClaimOnceWhenUnlocked == []ClaimOutcome /\ [][ClaimStep]_vars

\* a claim made exactly at unlock_time has succeeded and the next one is
\* rejected with BadState
C3_Witness ==
    \E o \in DOMAIN offers :
        /\ Emitted("TokensClaimed", o)
        /\ now = offers[o].unlock_time
        /\ claim_check(o, offers[o].beneficiary) = "BadState"

\* the offer of account o is fulfilled or cancelled
Terminal(o) == IsOffer(o) /\ (offers[o].fulfilled \/ offers[o].cancelled)

\* no instruction that targets a fulfilled or cancelled offer is accepted
TerminalRejectsAll ==
    \A o \in DOMAIN offers, k \in Keys, g \in AgentAccounts :
        Terminal(o) =>
            /\ \A c \in 1..Len(cons) :
                  /\ approve_offer_check(o, c, k) # "Ok"
                  /\ cancel_offer_with_consignment_check(o, c, k) # "Ok"
            /\ cancel_offer_check(o, k) # "Ok"
            /\ fulfill_offer_usdc_check(o, k, g) # "Ok"
            /\ fulfill_offer_sol_check(o, k, g) # "Ok"
            /\ claim_check(o, k) # "Ok"
            /\ emergency_refund_sol_check(o, k) # "Ok"
            /\ emergency_refund_usdc_check(o, k) # "Ok"

\* no step changes a field of a fulfilled or cancelled offer
TerminalFrozen == \A o \in DOMAIN offers : Terminal(o) => offers'[o] = offers[o]

\* C7: once an offer is fulfilled or cancelled, every operation that targets
\* it (approve, cancel, cancel with consignment, pay in either currency,
\* claim, emergency refund) is rejected, and none of its fields changes in
\* any later state
C7_TerminalIsFinal == []TerminalRejectsAll /\ [][TerminalFrozen]_vars

\* C8: in every reachable state every paid offer has amount_paid > 0 and a
\* payer that is not the empty key; no offer that passed the minimum-USD
\* check at creation settles for a zero amount, in USDC or in SOL
C8_PaidIsNonZero ==
    \A o \in DOMAIN offers :
        /\ offers[o].paid =>
              offers[o].amount_paid > 0 /\ offers[o].payer # DefaultKey
        /\ IsOffer(o) =>
              /\ UsdcAmount(o) > 0
              /\ SolUsd(o) > 0 => LamportsReq(o) > 0

\* bob has just paid an offer of 200 tokens at 3% off in SOL: 19400 usd_8d
\* at 3000000 usd_8d per SOL, rounded up to 6466667 lamports
C8_Witness ==
    \E o \in DOMAIN offers :
        /\ Emitted("OfferPaid", o)
        /\ offers[o].currency = 0
        /\ offers[o].token_amount = 200
        /\ offers[o].amount_paid = 6466667
        /\ offers[o].payer = "bob"

\* the cancel instructions reject a paid offer and the pay instructions a
\* cancelled one
PaidAndCancelledExclude ==
    \A o \in DOMAIN offers, k \in Keys, g \in AgentAccounts :
        /\ (IsOffer(o) /\ offers[o].paid) =>
              /\ cancel_offer_check(o, k) \in {"BadState", "Paused"}
              /\ \A c \in 1..Len(cons) :
                    cancel_offer_with_consignment_check(o, c, k)
                        \in {"BadState", "Paused"}
        /\ (IsOffer(o) /\ offers[o].cancelled) =>
              /\ fulfill_offer_usdc_check(o, k, g) # "Ok"
              /\ fulfill_offer_sol_check(o, k, g) # "Ok"

\* a step into paid and cancelled is an emergency refund of that offer
OnlyRefundCancelsPaid ==
    \A o \in DOMAIN offers :
        (/\ offers'[o].paid /\ offers'[o].cancelled
         /\ ~(offers[o].paid /\ offers[o].cancelled)) =>
            \E k \in Keys :
                emergency_refund_sol(o, k) \/ emergency_refund_usdc(o, k)

\* C9: an offer has paid and cancelled both set only if an emergency refund
\* succeeded on it: both cancel operations reject a paid offer and pay
\* rejects a cancelled offer
C9_PaidAndCancelledOnlyByRefund ==
    []PaidAndCancelledExclude /\ [][OnlyRefundCancelsPaid]_vars

\* an emergency refund in SOL has just cancelled a paid offer and sent
\* amount_paid back to the payer
C9_Witness ==
    \E o \in DOMAIN offers :
        /\ offers[o].paid /\ offers[o].cancelled
        /\ out = <<Transfer("SOL", DESK, offers[o].payer, offers[o].amount_paid)>>

\* what the claim requires of a pay call in currency cur on account o
PayConditions(o, cur) ==
    /\ offers[o].approved
    /\ ~offers[o].cancelled /\ ~offers[o].paid /\ ~offers[o].fulfilled
    /\ offers[o].currency = cur
    /\ now <= offers[o].created_at + desk.quote_expiry_secs
    /\ treasury >= offers[o].token_amount

PayErrors == {"NotApproved", "BadState", "Expired", "InsuffInv"}

\* the outcome res of a pay call in currency cur on account o
PayOutcomeOf(o, cur, res) ==
    /\ res = "Ok" => PayConditions(o, cur)
    /\ ~PayConditions(o, cur) => res \in PayErrors
    /\ (offers[o].currency = cur /\ ~offers[o].approved) => res = "NotApproved"
    /\ (offers[o].cancelled \/ offers[o].paid \/ offers[o].fulfilled)
          => res \in {"NotApproved", "BadState"}
    /\ (/\ offers[o].currency = cur /\ offers[o].approved
        /\ ~offers[o].cancelled /\ ~offers[o].paid /\ ~offers[o].fulfilled
        /\ now > offers[o].created_at + desk.quote_expiry_secs)
          => res = "Expired"
    /\ (/\ offers[o].currency = cur /\ offers[o].approved
        /\ ~offers[o].cancelled /\ ~offers[o].paid /\ ~offers[o].fulfilled
        /\ now <= offers[o].created_at + desk.quote_expiry_secs
        /\ treasury < offers[o].token_amount)
          => res = "InsuffInv"

PayOutcome ==
    \A o \in DOMAIN offers, k \in Keys, g \in AgentAccounts :
        (IsOffer(o) /\ ~desk.paused) =>
            /\ PayOutcomeOf(o, 1, fulfill_offer_usdc_check(o, k, g))
            /\ PayOutcomeOf(o, 0, fulfill_offer_sol_check(o, k, g))

\* a step that sets paid is taken under the conditions and is a pay step
PayStep ==
    \A o \in DOMAIN offers :
        (offers'[o].paid /\ ~offers[o].paid) =>
            /\ PayConditions(o, offers[o].currency)
            /\ Emits("OfferPaid", o)

\* C10: a pay call succeeds only if the offer is approved, not cancelled, not
\* paid, not fulfilled, of the currency of the pay operation, with
\* now <= created_at + quote_expiry_secs and a token treasury of at least
\* token_amount; a call that misses one of these is rejected with
\* NotApproved, BadState, Expired or InsuffInv and is no step of the program
C10_PayOnlyWhenPayable == []PayOutcome /\ [][PayStep]_vars

\* an approved, unexpired offer that the owner's withdraw_tokens left
\* without inventory: the pay call is rejected with InsuffInv
C10_Witness ==
    \E o \in DOMAIN offers :
        /\ IsOffer(o) /\ offers[o].approved /\ ~offers[o].paid
        /\ ~offers[o].cancelled /\ ~desk.paused
        /\ now = offers[o].created_at + desk.quote_expiry_secs
        /\ treasury < offers[o].token_amount
        /\ fulfill_offer_usdc_check(o, "bob", None) = "InsuffInv"

----------------------------------------------------------------------------
(* The inventory of consignments: two consignments of fixed terms, offers   *)
(* paid in USDC, and the instructions that reserve, restore or return a     *)
(* consignment's tokens                                                     *)

InvSlots == 1..InvOffers

InitInventory ==
    /\ desk = [InitDesk(10000, MIN_QUOTE_EXPIRY_SECS) EXCEPT
                 !.approvers = <<"appr">>,
                 !.emergency_refund_enabled = TRUE,
                 !.sol_usd_price_8d = 3000000]
    /\ reg = [RegisterToken(2, "None", "alice") EXCEPT
                 !.token_usd_price_8d = 10000,
                 !.prices_updated_at = StartTime]
    /\ cons = <<>>
    /\ offers = [o \in InvSlots |-> NoOffer]
    /\ now = StartTime
    /\ ticks = 0
    /\ treasury = 0
    /\ otherTreasury = 0
    /\ deskUsdc = 0
    /\ deskSol = 0
    /\ out = <<>>

NextInventory ==
    \/ Tick(THIRTY_DAYS)
    \/ Len(cons) < InvCons /\ create_consignment("alice", 500, FixedTerms)
    \/ \E o \in InvSlots, c \in 1..InvCons, id \in 1..InvCons, a \in OfferAmounts :
           /\ ~IsOffer(o)
           /\ create_offer_from_consignment(o, c, id, "bob", a, 300, 1,
                                            SECS_PER_DAY, 0)
    \/ \E c \in 1..InvCons : withdraw_consignment(c, "alice")
    \/ \E o \in InvSlots, k \in {OWNER, "bob"} : cancel_offer(o, k)
    \/ \E o \in InvSlots, c \in 1..InvCons, k \in {OWNER, "bob"} :
           cancel_offer_with_consignment(o, c, k)
    \/ \E o \in InvSlots : fulfill_offer_usdc(o, "bob", None)
    \/ \E o \in InvSlots, k \in {"bob"} : emergency_refund_usdc(o, k)

SpecInventory == InitInventory /\ [][NextInventory]_vars

----------------------------------------------------------------------------
(* Properties of the inventory *)

\* C4: in every reachable state each consignment has
\* 0 <= remaining_amount <= total_amount, and remaining_amount = 0 implies
\* is_active = FALSE; an offer creation that asks for more than the remaining
\* amount of an active consignment fails with InsuffInv
C4_RemainingWithinTotal ==
    \A c \in 1..Len(cons) :
        /\ 0 <= cons[c].remaining_amount
        /\ cons[c].remaining_amount <= cons[c].total_amount
        /\ cons[c].remaining_amount = 0 => ~cons[c].is_active
        /\ \A a \in OfferAmounts :
              (cons[c].is_active /\ a > cons[c].remaining_amount) =>
                  create_offer_from_consignment_check(c, "bob", a, 300, 1,
                                                      SECS_PER_DAY, 0) = "InsuffInv"

\* the sum of token_amount over the offers of accounts 1..n that name the
\* consignment id and are not cancelled
RECURSIVE ReservedUpTo(_, _)
ReservedUpTo(id, n) ==
    IF n = 0 THEN 0
    ELSE ReservedUpTo(id, n - 1)
         + (IF IsOffer(n) /\ offers[n].consignment_id = id /\ ~offers[n].cancelled
            THEN offers[n].token_amount ELSE 0)

\* C5: in every reachable state, for every consignment,
\* total_amount - remaining_amount is the sum of token_amount over the
\* offers created against it whose cancelled flag is false
C5_ReservedIsSumOfOffers ==
    \A c \in 1..Len(cons) :
        cons[c].total_amount - cons[c].remaining_amount
            = ReservedUpTo(cons[c].id, Len(offers))

\* a step that cancels the offer of account o through a cancel instruction
\* gives token_amount back to the consignment the offer names, and no such
\* step is taken on an offer that is already cancelled
CancelRestores ==
    \A o \in DOMAIN offers :
        (Emits("OfferCancelled", o) /\ offers[o].consignment_id > 0) =>
            /\ ~offers[o].cancelled
            /\ \E c \in 1..Len(cons) :
                  /\ cons[c].id = offers[o].consignment_id
                  /\ cons'[c].remaining_amount
                        = cons[c].remaining_amount + offers[o].token_amount

\* C6: every successful cancellation of an offer with consignment_id > 0,
\* through cancel_offer or cancel_offer_with_consignment, increases the
\* remaining_amount of that consignment by exactly the offer's token_amount,
\* and does so at most once per offer
C6_CancelRestoresOnce == [][CancelRestores]_vars

----------------------------------------------------------------------------
(* The quote phase: a negotiable and a fixed-term consignment, offers made  *)
(* against them or standalone, and the instructions that approve, cancel or *)
(* pay a quote                                                              *)

\* terms of a negotiable consignment: discount 100..500 bps, lockup 0..2 days
QuoteTerms ==
    [is_negotiable |-> TRUE, fixed_discount_bps |-> 0, fixed_lockup_days |-> 0,
     min_discount_bps |-> 100, max_discount_bps |-> 500,
     min_lockup_days |-> 0, max_lockup_days |-> 2,
     min_deal_amount |-> 100, max_deal_amount |-> 500,
     is_private |-> FALSE, max_price_volatility_bps |-> 0,
     token_mint |-> TOKEN_MINT]

QuoteSlots == 1..QuoteOffers
QuoteBeneficiaries == {"bob", OWNER}
QuoteDiscounts == {300, 600}
\* one day, a day and a half, three days
QuoteLockups == {SECS_PER_DAY, SECS_PER_DAY + 43200, 3 * SECS_PER_DAY}
QuoteCommissions == {0, MAX_NEGOTIATED_COMMISSION_BPS, 200}
QuoteP2pRates == {100, 600}

InitQuote ==
    /\ desk = [InitDesk(10000, MIN_QUOTE_EXPIRY_SECS) EXCEPT
                 !.approvers = <<"appr">>,
                 !.emergency_refund_enabled = TRUE,
                 !.sol_usd_price_8d = 3000000]
    /\ reg = [RegisterToken(2, "None", "alice") EXCEPT
                 !.token_usd_price_8d = 10000,
                 !.prices_updated_at = StartTime]
    /\ cons = <<>>
    /\ offers = [o \in QuoteSlots |-> NoOffer]
    /\ now = StartTime
    /\ ticks = 0
    /\ treasury = 0
    /\ otherTreasury = 0
    /\ deskUsdc = 0
    /\ deskSol = 0
    /\ out = <<>>

NextQuote ==
    \/ Tick(MIN_QUOTE_EXPIRY_SECS)
    \/ pause(OWNER)
    \/ unpause(OWNER)
    \/ \E k \in {OWNER, "bob"}, r \in QuoteP2pRates : set_p2p_commission(k, r)
    \/ \E t \in {QuoteTerms, FixedTerms} :
           Len(cons) < QuoteCons /\ create_consignment("alice", 500, t)
    \/ \E o \in QuoteSlots, b \in QuoteBeneficiaries :
           /\ desk.next_offer_id <= QuoteOfferId
           /\ create_offer(o, b, 200, 300, 1, SECS_PER_DAY)
    \/ \E o \in QuoteSlots, c \in 1..QuoteCons, id \in 1..QuoteCons,
          b \in QuoteBeneficiaries, d \in QuoteDiscounts, l \in QuoteLockups,
          m \in QuoteCommissions :
           /\ desk.next_offer_id <= QuoteOfferId
           /\ create_offer_from_consignment(o, c, id, b, 200, d, 1, l, m)
    \/ \E o \in QuoteSlots, c \in 1..QuoteCons, k \in Keys : approve_offer(o, c, k)
    \/ \E o \in QuoteSlots, k \in Keys : cancel_offer(o, k)
    \/ \E o \in QuoteSlots, c \in 1..QuoteCons, k \in Keys :
           cancel_offer_with_consignment(o, c, k)
    \/ \E o \in QuoteSlots : fulfill_offer_usdc(o, "bob", None)

SpecQuote == InitQuote /\ [][NextQuote]_vars

----------------------------------------------------------------------------
(* Approval *)

\* the conditions under which approve_offer may act on offer o with
\* consignment account c for caller k, the pause flag apart
ApproveCallable(o, c, k) ==
    /\ cons[c].id = offers[o].consignment_id
    /\ k = desk.agent \/ IsApprover(k)
    /\ ~offers[o].cancelled
    /\ ~offers[o].paid

ApproveOutcome ==
    \A o \in DOMAIN offers, c \in 1..Len(cons), k \in Keys :
        IsOffer(o) =>
            LET r == approve_offer_check(o, c, k) IN
            /\ r = "Ok" => /\ ApproveCallable(o, c, k)
                           /\ ~offers[o].approved
                           /\ cons[c].is_negotiable
            /\ (ApproveCallable(o, c, k) /\ ~desk.paused /\ offers[o].approved)
                   => r = "AlreadyApproved"
            /\ (ApproveCallable(o, c, k) /\ ~desk.paused
                /\ ~offers[o].approved /\ ~cons[c].is_negotiable)
                   => r = "NonNegotiableP2P"

ApprovedOnce ==
    \A o \in DOMAIN offers :
        /\ IsOffer(o) /\ SameOffer(o) /\ Emits("OfferApproved", o)
               => ~offers[o].approved /\ offers'[o].approved
        /\ IsOffer(o) /\ SameOffer(o) /\ ~offers[o].approved /\ offers'[o].approved
               => \E c \in 1..Len(cons), k \in Keys : approve_offer(o, c, k)

----------------------------------------------------------------------------
(* Cancellation *)

QuoteExpired(o) == now >= offers[o].created_at + desk.quote_expiry_secs

Privileged(k) == k = desk.owner \/ k = desk.agent \/ IsApprover(k)

\* the conditions of cancel_offer on offer o that do not depend on the caller
CancelOpen(o) == ~desk.paused /\ ~offers[o].paid /\ ~offers[o].fulfilled

\* the same for cancel_offer_with_consignment with consignment account c
CancelOpenWith(o, c) ==
    /\ CancelOpen(o)
    /\ ~offers[o].cancelled
    /\ offers[o].consignment_id > 0
    /\ cons[c].id = offers[o].consignment_id

CancelByBeneficiary ==
    \A o \in DOMAIN offers, c \in 1..Len(cons) :
        IsOffer(o) =>
            LET b == offers[o].beneficiary
                r == cancel_offer_check(o, b)
                rc == cancel_offer_with_consignment_check(o, c, b)
            IN
            /\ r = "Ok" => QuoteExpired(o)
            /\ rc = "Ok" => QuoteExpired(o)
            /\ (CancelOpen(o) /\ ~QuoteExpired(o)) => r = "NotExpired"
            /\ (CancelOpenWith(o, c) /\ ~QuoteExpired(o)) => rc = "NotExpired"

CancelByStranger ==
    \A o \in DOMAIN offers, c \in 1..Len(cons), k \in Keys :
        (IsOffer(o) /\ k # offers[o].beneficiary /\ ~Privileged(k)) =>
            LET r == cancel_offer_check(o, k)
                rc == cancel_offer_with_consignment_check(o, c, k)
            IN
            /\ r # "Ok" /\ rc # "Ok"
            /\ CancelOpen(o) => r = "NotApprover"
            /\ CancelOpenWith(o, c) => rc = "NotApprover"

\* an unpaid offer becomes cancelled only by a cancel call of its beneficiary
\* after the expiry or of the owner, the agent or an approver; any other step
\* leaves cancelled, and with it what a cancel restores, as it was
CancelStep ==
    \A o \in DOMAIN offers :
        (IsOffer(o) /\ SameOffer(o) /\ ~offers[o].paid
         /\ ~offers[o].cancelled /\ offers'[o].cancelled) =>
            \E k \in Keys :
                /\ \/ cancel_offer(o, k)
                   \/ \E c \in 1..Len(cons) : cancel_offer_with_consignment(o, c, k)
                /\ k = offers[o].beneficiary \/ Privileged(k)
                /\ k = offers[o].beneficiary => QuoteExpired(o)

\* C12: a cancel call of the offer's beneficiary succeeds only once
\* now >= created_at + quote_expiry_secs and is answered NotExpired before; a
\* cancel call of a caller who is neither beneficiary, owner, agent nor
\* approver is answered NotApprover; a call that is rejected is no step, and
\* every step that cancels an unpaid offer is a call that was not rejected.
C12_CancelNeedsExpiryOrRole ==
    /\ []CancelByBeneficiary
    /\ []CancelByStranger
    /\ [][CancelStep]_vars

\* an open quote before its expiry: its beneficiary is answered NotExpired
\* and a stranger NotApprover by both cancel instructions
C12_Witness ==
    \E o \in DOMAIN offers, c \in 1..Len(cons) :
        /\ IsOffer(o) /\ ~offers[o].cancelled
        /\ cancel_offer_check(o, offers[o].beneficiary) = "NotExpired"
        /\ cancel_offer_with_consignment_check(o, c, offers[o].beneficiary)
               = "NotExpired"
        /\ cancel_offer_check(o, "alice") = "NotApprover"
        /\ cancel_offer_with_consignment_check(o, c, "alice") = "NotApprover"

\* the consignment account c that cancel_offer_with_consignment accepts for
\* the open offer o
RestorableWith(o, c) ==
    /\ ~offers[o].cancelled
    /\ offers[o].consignment_id > 0
    /\ cons[c].id = offers[o].consignment_id

\* C13 as stated: on a desk that is not paused a cancel call of the owner,
\* the agent or an approver on an unpaid offer succeeds at any time, whether
\* or not that caller is the offer's beneficiary.
C13_PrivilegedCancelAlways ==
    \A o \in DOMAIN offers, k \in Keys :
        (IsOffer(o) /\ ~desk.paused /\ ~offers[o].paid /\ Privileged(k)) =>
            /\ cancel_offer_check(o, k) = "Ok"
            /\ \A c \in 1..Len(cons) :
                   RestorableWith(o, c) =>
                       cancel_offer_with_consignment_check(o, c, k) = "Ok"

\* C13 amended: on a desk that is not paused a cancel call of the owner, the
\* agent or an approver on an unpaid offer succeeds at any time, also before
\* the quote expiry, provided that caller is not the offer's beneficiary; a
\* caller who is also the beneficiary succeeds only once the quote has
\* expired and is answered NotExpired before.
C13_PrivilegedCancelUnlessBeneficiary ==
    \A o \in DOMAIN offers, k \in Keys :
        (IsOffer(o) /\ ~desk.paused /\ ~offers[o].paid /\ Privileged(k)) =>
            LET r == cancel_offer_check(o, k)
                expected == IF k = offers[o].beneficiary /\ ~QuoteExpired(o)
                            THEN "NotExpired" ELSE "Ok"
            IN
            /\ r = expected
            /\ \A c \in 1..Len(cons) :
                   RestorableWith(o, c) =>
                       cancel_offer_with_consignment_check(o, c, k) = expected

\* an offer whose beneficiary is the desk owner has just been cancelled
\* before its quote expiry
C13_Witness ==
    \E o \in DOMAIN offers :
        /\ IsOffer(o) /\ offers[o].beneficiary = desk.owner
        /\ offers[o].cancelled /\ Emitted("OfferCancelled", o)
        /\ ~QuoteExpired(o)

----------------------------------------------------------------------------
(* Refunds: a desk whose owner switches the emergency refund on and off and *)
(* sets its deadline, one offer of a fixed-term consignment paid in either  *)
(* currency, claimed or refunded                                            *)

RefundSlots == 1..RefundOffers
RefundDeadlines == {SECS_PER_DAY, THIRTY_DAYS}

\* as Init, with the emergency refund as init_desk leaves it
InitRefund ==
    /\ desk = [InitDesk(10000, MIN_QUOTE_EXPIRY_SECS) EXCEPT
                 !.approvers = <<"appr">>,
                 !.sol_usd_price_8d = 3000000]
    /\ reg = [RegisterToken(2, "None", "alice") EXCEPT
                 !.token_usd_price_8d = 10000,
                 !.prices_updated_at = StartTime]
    /\ cons = <<>>
    /\ offers = [o \in RefundSlots |-> NoOffer]
    /\ now = StartTime
    /\ ticks = 0
    /\ treasury = 0
    /\ otherTreasury = 0
    /\ deskUsdc = 0
    /\ deskSol = 0
    /\ out = <<>>

NextRefund ==
    \/ \E d \in {SECS_PER_DAY, THIRTY_DAYS} : Tick(d)
    \/ \E k \in {OWNER, "bob"}, e \in BOOLEAN, d \in RefundDeadlines :
           set_emergency_refund(k, e, d)
    \/ Len(cons) < RefundCons /\ create_consignment("alice", 500, FixedTerms)
    \/ \E o \in RefundSlots, c \in 1..RefundCons, cur \in Currencies :
           /\ desk.next_offer_id <= RefundOfferId
           /\ create_offer_from_consignment(o, c, c, "bob", 200, 300, cur,
                                            SECS_PER_DAY, 0)
    \/ \E o \in RefundSlots, k \in Payers : fulfill_offer_usdc(o, k, None)
    \/ \E o \in RefundSlots, k \in Payers : fulfill_offer_sol(o, k, None)
    \/ \E o \in RefundSlots, k \in Keys : claim(o, k)
    \/ \E o \in RefundSlots, k \in Keys : emergency_refund_sol(o, k)
    \/ \E o \in RefundSlots, k \in Keys : emergency_refund_usdc(o, k)

SpecRefund == InitRefund /\ [][NextRefund]_vars

----------------------------------------------------------------------------
(* Emergency refund *)

Max(a, b) == IF a >= b THEN a ELSE b

\* the time from which the specification allows a refund of offer o
RefundTime(o) ==
    Max(offers[o].created_at + desk.emergency_refund_deadline_secs,
        offers[o].unlock_time + THIRTY_DAYS)

\* the requires of an emergency refund that precede the test of the time
Refundable(o, cur) ==
    /\ desk.emergency_refund_enabled
    /\ offers[o].paid /\ ~offers[o].fulfilled /\ ~offers[o].cancelled
    /\ offers[o].currency = cur

\* C14: an emergency refund in either currency succeeds only when
\* now >= max(created_at + emergency_refund_deadline_secs, unlock_time +
\* 30 days), and earlier it is answered TooEarlyForRefund.
C14_RefundOnlyAfterBothDeadlines ==
    \A o \in DOMAIN offers, k \in Keys :
        IsOffer(o) =>
            /\ emergency_refund_sol_check(o, k) = "Ok" => now >= RefundTime(o)
            /\ emergency_refund_usdc_check(o, k) = "Ok" => now >= RefundTime(o)
            /\ (Refundable(o, 0) /\ now < RefundTime(o))
                   => emergency_refund_sol_check(o, k) = "TooEarlyForRefund"
            /\ (Refundable(o, 1) /\ now < RefundTime(o))
                   => emergency_refund_usdc_check(o, k) = "TooEarlyForRefund"

\* who may ask for the refund of offer o
RefundCaller(o, k) ==
    \/ k = offers[o].payer
    \/ k = offers[o].beneficiary
    \/ k = desk.owner
    \/ k = desk.agent
    \/ IsApprover(k)

RefundOutcome ==
    \A o \in DOMAIN offers, k \in Keys :
        IsOffer(o) =>
            /\ emergency_refund_sol_check(o, k) = "Ok"
                   => Refundable(o, 0) /\ RefundCaller(o, k)
            /\ emergency_refund_usdc_check(o, k) = "Ok"
                   => Refundable(o, 1) /\ RefundCaller(o, k)
            /\ (offers[o].paid /\ offers[o].cancelled) =>
                   /\ emergency_refund_sol_check(o, k) # "Ok"
                   /\ emergency_refund_usdc_check(o, k) # "Ok"
                   /\ claim_check(o, k) # "Ok"

\* the effect of a refund of offer o in the asset of its currency
Refunded(o, asset) ==
    /\ out' = <<Transfer(asset, DESK, offers[o].payer, offers[o].amount_paid)>>
    /\ offers' = [offers EXCEPT ![o].cancelled = TRUE]
    /\ offers'[o].cancelled /\ offers'[o].paid
    /\ offers'[o].payer = offers[o].payer
    /\ offers'[o].amount_paid = offers[o].amount_paid
    /\ deskSol' = deskSol - (IF asset = "SOL" THEN offers[o].amount_paid ELSE 0)
    /\ deskUsdc' = deskUsdc - (IF asset = "USDC" THEN offers[o].amount_paid ELSE 0)

RefundStep ==
    \A o \in DOMAIN offers, k \in Keys :
        /\ emergency_refund_sol(o, k) => Refunded(o, "SOL")
        /\ emergency_refund_usdc(o, k) => Refunded(o, "USDC")

\* C15: an emergency refund succeeds only if the desk's flag is enabled, the
\* offer is paid, not fulfilled and not cancelled, and the caller is payer,
\* beneficiary, owner, agent or an approver; it sends exactly amount_paid to
\* the recorded payer in the offer's currency, sets cancelled and keeps paid,
\* payer and amount_paid; a refunded offer admits no second refund and no
\* claim.
C15_RefundOnceToPayer == []RefundOutcome /\ [][RefundStep]_vars

\* a paid offer has just been refunded to its payer
C15_Witness ==
    \E o \in DOMAIN offers, asset \in {"SOL", "USDC"} :
        /\ IsOffer(o) /\ offers[o].paid /\ offers[o].cancelled
        /\ offers[o].amount_paid > 0
        /\ out = <<Transfer(asset, DESK, offers[o].payer, offers[o].amount_paid)>>

----------------------------------------------------------------------------
(* Pause *)

\* C16: while the pause flag is set, consignment creation and withdrawal,
\* offer creation, approve, cancel, pay, claim and emergency refund are all
\* rejected.
C16_PausedBlocksAll ==
    desk.paused =>
        /\ \A a \in ConsAmounts, t \in ConsTerms :
               create_consignment_check(a, t) # "Ok"
        /\ \A c \in 1..Len(cons), k \in Keys :
               withdraw_consignment_check(c, k) # "Ok"
        /\ \A a \in OfferAmounts, d \in Discounts, cur \in Currencies, l \in Lockups :
               create_offer_check(a, d, cur, l) # "Ok"
        /\ \A c \in 1..Len(cons), b \in Beneficiaries, a \in OfferAmounts,
              d \in Discounts, cur \in Currencies, l \in Lockups, m \in Commissions :
               create_offer_from_consignment_check(c, b, a, d, cur, l, m) # "Ok"
        /\ \A o \in DOMAIN offers, k \in Keys :
               IsOffer(o) =>
                   /\ \A c \in 1..Len(cons) :
                          /\ approve_offer_check(o, c, k) # "Ok"
                          /\ cancel_offer_with_consignment_check(o, c, k) # "Ok"
                   /\ cancel_offer_check(o, k) # "Ok"
                   /\ \A g \in AgentAccounts :
                          /\ fulfill_offer_usdc_check(o, k, g) # "Ok"
                          /\ fulfill_offer_sol_check(o, k, g) # "Ok"
                   /\ claim_check(o, k) # "Ok"
                   /\ emergency_refund_sol_check(o, k) # "Ok"
                   /\ emergency_refund_usdc_check(o, k) # "Ok"

----------------------------------------------------------------------------
(* Restricted fulfilment: the owner sets and clears restrict_fulfill and    *)
(* edits the approver set while offers of a fixed-term consignment are paid *)

FulfillSlots == 1..FulfillOffers

InitFulfill ==
    /\ desk = [InitDesk(10000, MIN_QUOTE_EXPIRY_SECS) EXCEPT
                 !.approvers = <<"appr">>,
                 !.sol_usd_price_8d = 3000000]
    /\ reg = [RegisterToken(2, "None", "alice") EXCEPT
                 !.token_usd_price_8d = 10000,
                 !.prices_updated_at = StartTime]
    /\ cons = <<>>
    /\ offers = [o \in FulfillSlots |-> NoOffer]
    /\ now = StartTime
    /\ ticks = 0
    /\ treasury = 0
    /\ otherTreasury = 0
    /\ deskUsdc = 0
    /\ deskSol = 0
    /\ out = <<>>

NextFulfill ==
    \/ Tick(SECS_PER_DAY)
    \/ \E k \in {OWNER, "bob"}, e \in BOOLEAN : set_restrict_fulfill(k, e)
    \/ \E k \in {OWNER, "bob"}, w \in {"appr", "alice"}, e \in BOOLEAN :
           set_approver(k, w, e)
    \/ Len(cons) < FulfillCons /\ create_consignment("alice", 500, FixedTerms)
    \/ \E o \in FulfillSlots, c \in 1..FulfillCons, cur \in Currencies :
           /\ desk.next_offer_id <= FulfillOfferId
           /\ create_offer_from_consignment(o, c, c, "bob", 200, 300, cur,
                                            SECS_PER_DAY, 0)
    \/ \E o \in FulfillSlots, k \in Keys, g \in AgentAccounts :
           fulfill_offer_usdc(o, k, g)
    \/ \E o \in FulfillSlots, k \in Keys, g \in AgentAccounts :
           fulfill_offer_sol(o, k, g)

SpecFulfill == InitFulfill /\ [][NextFulfill]_vars

\* whom restrict_fulfill lets pay offer o
MayFulfill(o, k) ==
    \/ k = offers[o].beneficiary
    \/ k = desk.owner
    \/ k = desk.agent
    \/ IsApprover(k)

FulfillRestriction ==
    \A o \in DOMAIN offers, k \in Keys, g \in AgentAccounts :
        IsOffer(o) =>
            LET ru == fulfill_offer_usdc_check(o, k, g)
                rs == fulfill_offer_sol_check(o, k, g)
            IN
            /\ (desk.restrict_fulfill /\ (ru = "Ok" \/ rs = "Ok")) => MayFulfill(o, k)
            /\ (desk.restrict_fulfill /\ ~desk.paused /\ ~MayFulfill(o, k)) =>
                   /\ PayConditions(o, 1) => ru = "FulfillRestricted"
                   /\ PayConditions(o, 0) => rs = "FulfillRestricted"
            /\ (~desk.restrict_fulfill /\ ~desk.paused) =>
                   /\ PayConditions(o, 1) => ru = "Ok"
                   /\ PayConditions(o, 0) => rs = "Ok"

\* a payment made while restrict_fulfill is set records a permitted payer
RestrictedPayStep ==
    \A o \in DOMAIN offers :
        (IsOffer(o) /\ SameOffer(o) /\ ~offers[o].paid /\ offers'[o].paid
         /\ desk.restrict_fulfill) => MayFulfill(o, offers'[o].payer)

\* C17: while restrict_fulfill is set a pay call succeeds only for the
\* offer's beneficiary, the owner, the agent or a current approver and is
\* answered FulfillRestricted for anybody else; while it is not set every
\* payer may pay a payable offer.
C17_RestrictFulfill == []FulfillRestriction /\ [][RestrictedPayStep]_vars

\* under restrict_fulfill a payable offer refuses a stranger and is then
\* paid by the desk owner
C17_Witness ==
    \E o \in DOMAIN offers :
        /\ IsOffer(o) /\ desk.restrict_fulfill
        /\ offers[o].paid /\ offers[o].payer = desk.owner
        /\ offers[o].beneficiary # desk.owner
        /\ Emitted("OfferPaid", o)
        /\ ~MayFulfill(o, "alice")

----------------------------------------------------------------------------
(* Creation of offers *)

\* this step writes a new offer into account o
Creates(o) == offers'[o].id # offers[o].id

\* this step takes tokens of consignment c
Reserves(c) == cons'[c].remaining_amount < cons[c].remaining_amount

CreatedOnly(o) == out' = <<Event("OfferCreated", o)>>

CreatedAndApproved(o) ==
    out' = <<Event("OfferCreated", o), Event("OfferApproved", o)>>

AutoApproval ==
    \A o \in DOMAIN offers :
        Creates(o) =>
            /\ cons' = cons => ~offers'[o].approved /\ CreatedOnly(o)
            /\ \A c \in 1..Len(cons) :
                   Reserves(c) =>
                       IF cons[c].is_negotiable
                       THEN ~offers'[o].approved /\ CreatedOnly(o)
                       ELSE offers'[o].approved /\ CreatedAndApproved(o)
            /\ cons' = cons \/ \E c \in 1..Len(cons) : Reserves(c)

\* C18: an offer created against a fixed-term consignment is approved by the
\* step that creates it, and that step emits OfferCreated followed by
\* OfferApproved; an offer created against a negotiable consignment and every
\* standalone offer starts with approved = false, and the step emits only
\* OfferCreated.
C18_AutoApproval == [][AutoApproval]_vars

\* an offer of a fixed-term consignment in the state after its creation
C18_Witness ==
    \E o \in DOMAIN offers, c \in 1..Len(cons) :
        /\ IsOffer(o) /\ offers[o].approved
        /\ ~cons[c].is_negotiable /\ cons[c].remaining_amount < cons[c].total_amount
        /\ out = <<Event("OfferCreated", o), Event("OfferApproved", o)>>

\* what create_offer_from_consignment is asked for: discount, lockup and
\* commission are acceptable to consignment c
TermsAccepted(c, d, l, m) ==
    IF cons[c].is_negotiable
    THEN /\ d >= cons[c].min_discount_bps /\ d <= cons[c].max_discount_bps
         /\ l >= cons[c].min_lockup_days * SECS_PER_DAY
         /\ l <= cons[c].max_lockup_days * SECS_PER_DAY
         /\ m >= MIN_NEGOTIATED_COMMISSION_BPS
         /\ m <= MAX_NEGOTIATED_COMMISSION_BPS
    ELSE /\ d = cons[c].fixed_discount_bps
         /\ l = cons[c].fixed_lockup_days * SECS_PER_DAY

OnlyAcceptedTerms ==
    \A c \in 1..Len(cons), b \in QuoteBeneficiaries, d \in QuoteDiscounts,
       l \in QuoteLockups, m \in QuoteCommissions :
        create_offer_from_consignment_check(c, b, 200, d, 1, l, m) = "Ok"
            => TermsAccepted(c, d, l, m)

\* the commission an offer made against consignment c records
CommissionRecorded ==
    \A o \in DOMAIN offers, c \in 1..Len(cons) :
        (Creates(o) /\ Reserves(c)) =>
            \A id \in 1..QuoteCons, b \in QuoteBeneficiaries, d \in QuoteDiscounts,
               l \in QuoteLockups, m \in QuoteCommissions :
                create_offer_from_consignment(o, c, id, b, 200, d, 1, l, m) =>
                    offers'[o].agent_commission_bps =
                        IF cons[c].is_negotiable THEN m
                        ELSE desk.p2p_commission_bps

\* the offer counter and a consignment's remaining amount move only in a
\* step that creates an offer
RejectedChangesNothing ==
    /\ desk'.next_offer_id # desk.next_offer_id
           => \E o \in DOMAIN offers : Creates(o)
    /\ \A c \in 1..Len(cons) :
           Reserves(c) => \E o \in DOMAIN offers : Creates(o)

\* C19: create_offer_from_consignment on a negotiable consignment succeeds
\* only with discount and lockup inside the consignment's ranges and a
\* commission in [25,150] bps, which the offer records; on a fixed-term
\* consignment only with discount and lockup equal to the fixed terms, and
\* the offer records the desk's peer-to-peer rate; a rejected call changes
\* neither remaining_amount nor the offer counter.
C19_TermsOfConsignment ==
    /\ []OnlyAcceptedTerms
    /\ [][CommissionRecorded]_vars
    /\ [][RejectedChangesNothing]_vars

\* the consignment of the scenario: negotiable, discounts from 100 to 500
\* bps, open for an offer of 200 tokens on a desk that is not paused
ScenarioConsignment(c) ==
    /\ cons[c].is_negotiable
    /\ cons[c].min_discount_bps = 100 /\ cons[c].max_discount_bps = 500
    /\ cons[c].is_active /\ cons[c].remaining_amount >= 200
    /\ ~desk.paused

\* the answer to an offer of 200 tokens for bob, paid in USDC and locked for
\* one day
ScenarioCall(c, discount_bps, agent_commission_bps) ==
    create_offer_from_consignment_check(c, "bob", 200, discount_bps, 1,
                                        SECS_PER_DAY, agent_commission_bps)

\* C20 as stated: against a negotiable consignment with discounts from 100 to
\* 500 bps, discount 600 fails with Discount, and discount 300 with
\* commission 200 succeeds.
C20_ScenarioAsStated ==
    \A c \in 1..Len(cons) :
        ScenarioConsignment(c) =>
            /\ ScenarioCall(c, 600, 200) = "Discount"
            /\ ScenarioCall(c, 300, 200) = "Ok"

ScenarioAnswers ==
    \A c \in 1..Len(cons) :
        ScenarioConsignment(c) =>
            /\ ScenarioCall(c, 600, 200) = "Discount"
            /\ ScenarioCall(c, 600, 150) = "Discount"
            /\ ScenarioCall(c, 300, 200) = "CommissionRange"
            /\ ScenarioCall(c, 300, 150) = "Ok"

ScenarioOffer ==
    \A o \in DOMAIN offers, c \in 1..Len(cons) :
        (Creates(o) /\ Reserves(c) /\ ScenarioConsignment(c)) =>
            /\ ~offers'[o].approved
            /\ offers'[o].agent_commission_bps <= MAX_NEGOTIATED_COMMISSION_BPS

\* C20 amended: against a negotiable consignment with discounts from 100 to
\* 500 bps, discount 600 fails with Discount; discount 300 with commission
\* 200 fails with CommissionRange; discount 300 with commission 150 succeeds
\* and leaves the offer with approved = false.
C20_Scenario == []ScenarioAnswers /\ [][ScenarioOffer]_vars

\* the offer of the scenario, discount 300 and commission 150, just created
\* and unapproved, while its consignment still refuses the other two calls
C20_Witness ==
    \E o \in DOMAIN offers, c \in 1..Len(cons) :
        /\ ScenarioConsignment(c)
        /\ IsOffer(o) /\ offers[o].consignment_id = cons[c].id
        /\ offers[o].discount_bps = 300
        /\ offers[o].agent_commission_bps = 150
        /\ ~offers[o].approved
        /\ out = <<Event("OfferCreated", o)>>
        /\ ScenarioCall(c, 600, 200) = "Discount"
        /\ ScenarioCall(c, 300, 200) = "CommissionRange"

----------------------------------------------------------------------------
(* Prices and settlement amounts: a desk right after init_desk and          *)
(* register_token, whose owner and feed set the prices while offers of a    *)
(* negotiable consignment and standalone offers are created and paid        *)

\* terms of a negotiable consignment that takes every discount
PriceTerms ==
    [is_negotiable |-> TRUE, fixed_discount_bps |-> 0, fixed_lockup_days |-> 0,
     min_discount_bps |-> 0, max_discount_bps |-> BPS_DENOM,
     min_lockup_days |-> 0, max_lockup_days |-> 2,
     min_deal_amount |-> 100, max_deal_amount |-> 500,
     is_private |-> FALSE, max_price_volatility_bps |-> 0,
     token_mint |-> TOKEN_MINT]

PriceSlots == 1..PriceOffers
\* what the price feed may answer; convert_pyth_price scales by
\* 10^(8 - exponent), so these are 10500, 10501 and 0 with 8 decimals, and
\* a price that is too old
PriceFeeds ==
    {[fresh |-> TRUE, price |-> 105, exponent |-> 6],
     [fresh |-> TRUE, price |-> 10501, exponent |-> 8],
     [fresh |-> TRUE, price |-> 5, exponent |-> 10],
     [fresh |-> FALSE, price |-> 10000, exponent |-> 8]}
DeviationBounds == {0, 500}
ManualPrices == {0, 10000}
SolPrices == {3000000, 6000000}
PriceAmounts == {100, 200}
PriceDiscounts == {0, 5000}

InitPrice ==
    /\ desk = [InitDesk(10000, 2 * INIT_MAX_PRICE_AGE_SECS) EXCEPT
                 !.approvers = <<"appr">>]
    /\ reg = RegisterToken(2, "None", "alice")
    /\ cons = <<>>
    /\ offers = [o \in PriceSlots |-> NoOffer]
    /\ now = StartTime
    /\ ticks = 0
    /\ treasury = 0
    /\ otherTreasury = 0
    /\ deskUsdc = 0
    /\ deskSol = 0
    /\ out = <<>>

NextPrice ==
    \/ Tick(INIT_MAX_PRICE_AGE_SECS)
    \/ \E k \in {OWNER, "bob"}, p \in ManualPrices : set_manual_token_price(k, p)
    \/ \E f \in PriceFeeds, b \in DeviationBounds :
           update_token_price_from_pyth(f, b)
    \/ \E k \in {OWNER, "bob"}, sp \in SolPrices :
           set_prices(k, 10000, sp, INIT_MAX_PRICE_AGE_SECS)
    \/ Len(cons) < PriceCons /\ create_consignment("alice", 500, PriceTerms)
    \/ \E o \in PriceSlots, d \in PriceDiscounts, cur \in Currencies :
           /\ desk.next_offer_id <= PriceOfferId
           /\ create_offer(o, "bob", 100, d, cur, SECS_PER_DAY)
    \/ \E o \in PriceSlots, c \in 1..PriceCons, a \in PriceAmounts,
          d \in PriceDiscounts, cur \in Currencies :
           /\ desk.next_offer_id <= PriceOfferId
           /\ create_offer_from_consignment(o, c, c, "bob", a, d, cur,
                  SECS_PER_DAY, MAX_NEGOTIATED_COMMISSION_BPS)
    \/ \E o \in PriceSlots, c \in 1..PriceCons : approve_offer(o, c, AGENT)
    \/ \E o \in PriceSlots, g \in AgentAccounts : fulfill_offer_usdc(o, "bob", g)
    \/ \E o \in PriceSlots, g \in AgentAccounts : fulfill_offer_sol(o, "bob", g)

SpecPrice == InitPrice /\ [][NextPrice]_vars

----------------------------------------------------------------------------
(* C21: the desk minimum *)

\* the discounted USD value of token_amount at the registry's current price
ImpliedUsd(token_amount, discount_bps) ==
    calc_discounted_usd(token_amount, reg.token_usd_price_8d, reg.decimals,
                        discount_bps)

\* the registry price is set and not older than the desk allows
PriceUsable ==
    /\ reg.token_usd_price_8d > 0
    /\ now - reg.prices_updated_at <= desk.max_price_age_secs

\* what create_offer answers to a value at, above and below the minimum
MinUsdStandalone ==
    \A a \in PriceAmounts, d \in PriceDiscounts, cur \in Currencies :
        LET r == create_offer_check(a, d, cur, SECS_PER_DAY)
            usd == ImpliedUsd(a, d)
        IN /\ r = "Ok" => usd >= desk.min_usd_amount_8d
           /\ r = "MinUsd" => usd < desk.min_usd_amount_8d
           /\ (PriceUsable /\ usd < desk.min_usd_amount_8d) => r = "MinUsd"
           /\ (PriceUsable /\ usd >= desk.min_usd_amount_8d) => r = "Ok"

\* what create_offer_from_consignment answers
MinUsdFromConsignment ==
    \A c \in 1..Len(cons), a \in PriceAmounts, d \in PriceDiscounts,
       cur \in Currencies :
        LET r == create_offer_from_consignment_check(c, "bob", a, d, cur,
                     SECS_PER_DAY, MAX_NEGOTIATED_COMMISSION_BPS)
            usd == ImpliedUsd(a, d)
        IN /\ r = "Ok" => usd >= desk.min_usd_amount_8d
           /\ r = "MinUsd" => usd < desk.min_usd_amount_8d
           /\ (/\ PriceUsable
               /\ cons[c].is_active
               /\ a <= cons[c].remaining_amount)
              => r = (IF usd < desk.min_usd_amount_8d THEN "MinUsd" ELSE "Ok")

\* a step that creates an offer creates one worth the minimum or more
CreatesAtLeastMinUsd ==
    \A o \in DOMAIN offers :
        Creates(o) =>
            ImpliedUsd(offers'[o].token_amount, offers'[o].discount_bps)
                >= desk.min_usd_amount_8d

\* C21: create_offer and create_offer_from_consignment accept a request only
\* if its discounted USD value at the registry's current price is at least
\* the desk minimum, a value equal to the minimum included; a value below it
\* is answered with MinUsd, and only a step that creates an offer moves the
\* offer counter or takes tokens of a consignment.
C21_MinUsd ==
    /\ [](MinUsdStandalone /\ MinUsdFromConsignment)
    /\ [][CreatesAtLeastMinUsd /\ RejectedChangesNothing]_vars

\* an offer worth exactly the minimum was created at no discount, and the
\* same amount at half the price is answered with MinUsd
C21_Witness ==
    \E o \in DOMAIN offers :
        /\ Emitted("OfferCreated", o)
        /\ offers[o].discount_bps = 0
        /\ ImpliedUsd(offers[o].token_amount, 0) = desk.min_usd_amount_8d
        /\ create_offer_check(offers[o].token_amount, 5000, 1, SECS_PER_DAY)
               = "MinUsd"

----------------------------------------------------------------------------
(* C22: the price an offer is created at *)

\* a price that was set carries the time it was set at, so that the age
\* test, which the code skips for prices_updated_at = 0, is never skipped
PriceHasTimestamp == reg.token_usd_price_8d > 0 => reg.prices_updated_at > 0

PriceAge == now - reg.prices_updated_at

PriceGateStandalone ==
    \A a \in PriceAmounts, d \in PriceDiscounts, cur \in Currencies :
        LET r == create_offer_check(a, d, cur, SECS_PER_DAY) IN
        /\ r = "Ok" => (/\ reg.token_usd_price_8d > 0
                        /\ PriceAge <= desk.max_price_age_secs)
        /\ reg.token_usd_price_8d = 0 => r = "NoPrice"
        /\ (/\ reg.token_usd_price_8d > 0
            /\ PriceAge > desk.max_price_age_secs) => r = "StalePrice"

PriceGateFromConsignment ==
    \A c \in 1..Len(cons), a \in PriceAmounts, d \in PriceDiscounts,
       cur \in Currencies :
        LET r == create_offer_from_consignment_check(c, "bob", a, d, cur,
                     SECS_PER_DAY, MAX_NEGOTIATED_COMMISSION_BPS)
            reachesPrice == cons[c].is_active /\ a <= cons[c].remaining_amount
        IN
        /\ r = "Ok" => (/\ reg.token_usd_price_8d > 0
                        /\ PriceAge <= desk.max_price_age_secs)
        /\ (reachesPrice /\ reg.token_usd_price_8d = 0) => r = "NoPrice"
        /\ (/\ reachesPrice
            /\ reg.token_usd_price_8d > 0
            /\ PriceAge > desk.max_price_age_secs) => r = "StalePrice"

\* a step that creates an offer finds a price that is set and young enough
CreatesAtFreshPrice ==
    \A o \in DOMAIN offers :
        Creates(o) =>
            /\ reg.token_usd_price_8d > 0
            /\ PriceAge <= desk.max_price_age_secs
            /\ offers'[o].price_usd_per_token_8d = reg.token_usd_price_8d

\* C22: an offer is created only when the registry price is > 0 and its age
\* now - prices_updated_at is at most the desk's max_price_age_secs; an
\* older price is answered with StalePrice, a price of 0 with NoPrice, and
\* then neither the offer counter nor a consignment changes.
C22_FreshPrice ==
    /\ [](PriceHasTimestamp /\ PriceGateStandalone /\ PriceGateFromConsignment)
    /\ [][CreatesAtFreshPrice /\ RejectedChangesNothing]_vars

\* an offer was created at a price exactly max_price_age_secs old
C22_Witness ==
    \E o \in DOMAIN offers :
        /\ Emitted("OfferCreated", o)
        /\ offers[o].created_at = now
        /\ reg.token_usd_price_8d > 0
        /\ PriceAge = desk.max_price_age_secs

----------------------------------------------------------------------------
(* C23: prices frozen into the offer *)

\* what the payer of offer record off has to deliver on desk record dsk, as
\* fulfill_offer_usdc and fulfill_offer_sol compute it; 0 while
\* fulfill_offer_sol finds no native/USD price to pay at
SettlementAmount(off, dsk) ==
    LET usd == calc_discounted_usd(off.token_amount, off.price_usd_per_token_8d,
                                   off.token_decimals, off.discount_bps)
        sol_usd == IF off.sol_usd_price_8d > 0 THEN off.sol_usd_price_8d
                   ELSE dsk.sol_usd_price_8d
    IN IF off.currency = 1 THEN mul_div_ceil_u128(usd, USDC_UNIT, USD_SCALE_8D)
       ELSE IF sol_usd > 0 THEN mul_div_ceil_u128(usd, LAMPORTS_PER_SOL, sol_usd)
       ELSE 0

\* this step writes a price of the registry or of the desk
PriceUpdate ==
    \/ reg'.token_usd_price_8d # reg.token_usd_price_8d
    \/ reg'.prices_updated_at # reg.prices_updated_at
    \/ desk'.sol_usd_price_8d # desk.sol_usd_price_8d
    \/ desk'.token_usd_price_8d # desk.token_usd_price_8d
    \/ desk'.prices_updated_at # desk.prices_updated_at

\* the prices recorded at creation are those of the registry and the desk
FreezesPrices ==
    \A o \in DOMAIN offers :
        Creates(o) =>
            /\ offers'[o].price_usd_per_token_8d = reg.token_usd_price_8d
            /\ offers'[o].sol_usd_price_8d =
                   (IF offers'[o].currency = 0 THEN desk.sol_usd_price_8d ELSE 0)

\* C23: after an offer is created no price update of the registry or of the
\* desk changes the offer, and the amount its payer has to deliver stays
\* what the token price and, for a native-currency offer, the native/USD
\* price of the moment of creation make it.
C23_FrozenPrices ==
    [][/\ FreezesPrices
       /\ \A o \in DOMAIN offers :
              (IsOffer(o) /\ SameOffer(o)) =>
                  /\ PriceUpdate => offers'[o] = offers[o]
                  /\ SettlementAmount(offers'[o], desk')
                         = SettlementAmount(offers[o], desk)]_vars

----------------------------------------------------------------------------
(* C24: rounding of the settlement amount and of the commission *)

RECURSIVE GCD(_, _)
GCD(a, b) == IF b = 0 THEN a ELSE GCD(b, a % b)

\* the conversion rate of offer o from USD with 8 decimals into minor units
\* of its settlement currency, as the fraction RateNum / RateDen in lowest
\* terms
RateNum(o) ==
    IF offers[o].currency = 1 THEN USDC_UNIT \div GCD(USDC_UNIT, USD_SCALE_8D)
    ELSE LAMPORTS_PER_SOL \div GCD(LAMPORTS_PER_SOL, SolUsd(o))

RateDen(o) ==
    IF offers[o].currency = 1 THEN USD_SCALE_8D \div GCD(USDC_UNIT, USD_SCALE_8D)
    ELSE SolUsd(o) \div GCD(LAMPORTS_PER_SOL, SolUsd(o))

\* y is x * n / d rounded up, resp. down
IsCeilOf(y, x, n, d) == y * d >= x * n /\ (y - 1) * d < x * n

IsFloorOf(y, x, n, d) == y * d <= x * n /\ (y + 1) * d > x * n

\* this step pays offer o
Pays(o) == IsOffer(o) /\ SameOffer(o) /\ ~offers[o].paid /\ offers'[o].paid

\* the amount collected is the USD value converted and rounded up, and is
\* what the first transfer of the step moves from the payer to the desk
CollectsCeil(o) ==
    /\ IsCeilOf(offers'[o].amount_paid, OfferUsd(o), RateNum(o), RateDen(o))
    /\ out'[1].kind = "transfer"
    /\ out'[1].to = DESK
    /\ out'[1].amount = offers'[o].amount_paid

\* every transfer to the agent is floor(usd * bps / 10000) converted and
\* rounded down
CommissionFloor(o) ==
    \A i \in 1..Len(out') :
        (out'[i].kind = "transfer" /\ out'[i].to = desk.agent) =>
            \E cu \in 0..OfferUsd(o) :
                /\ IsFloorOf(cu, OfferUsd(o), offers[o].agent_commission_bps,
                             BPS_DENOM)
                /\ IsFloorOf(out'[i].amount, cu, RateNum(o), RateDen(o))

\* the two roundings of the same value
CeilAndFloor(x, n, d) ==
    LET c == mul_div_ceil_u128(x, n, d)
        f == mul_div_u128(x, n, d)
        g == GCD(n, d)
    IN /\ c - f \in {0, 1}
       /\ c = f <=> (x * (n \div g)) % (d \div g) = 0

RoundingGap(o) ==
    IF offers[o].currency = 1
    THEN /\ CeilAndFloor(OfferUsd(o), USDC_UNIT, USD_SCALE_8D)
         /\ CeilAndFloor(CommissionUsd(o), USDC_UNIT, USD_SCALE_8D)
    ELSE /\ CeilAndFloor(OfferUsd(o), LAMPORTS_PER_SOL, SolUsd(o))
         /\ CeilAndFloor(CommissionUsd(o), LAMPORTS_PER_SOL, SolUsd(o))

\* C24: on every successful pay amount_paid is the offer's discounted USD
\* value converted into the settlement currency and rounded up (so never
\* worth less than the value owed), the commission transferred is
\* floor(usd * commission bps / 10000) converted and rounded down (so never
\* worth more than its exact value), and rounding the same value up and
\* down differs by at most one unit, by none exactly when nothing remains.
C24_Rounding ==
    [][\A o \in DOMAIN offers :
          Pays(o) => CollectsCeil(o) /\ CommissionFloor(o) /\ RoundingGap(o)]_vars

\* an offer was paid more than the exact conversion of its value, rounded
\* up, and a commission was transferred
C24_Witness ==
    \E o \in DOMAIN offers :
        /\ Emitted("OfferPaid", o)
        /\ Emitted("AgentCommissionPaid", o)
        /\ offers[o].amount_paid * RateDen(o) > OfferUsd(o) * RateNum(o)

----------------------------------------------------------------------------
(* C25: a pay without the agent's payout account *)

\* both pay instructions answer a call without the agent's account as they
\* answer the same call with it
SameAnswerWithoutAgent ==
    \A o \in DOMAIN offers, k \in Keys :
        IsOffer(o) =>
            /\ fulfill_offer_usdc_check(o, k, None)
                   = fulfill_offer_usdc_check(o, k, desk.agent)
            /\ fulfill_offer_sol_check(o, k, None)
                   = fulfill_offer_sol_check(o, k, desk.agent)

\* offer o after payer k paid it, whatever accounts the call supplied
PaidBy(o, k) ==
    [offers EXCEPT ![o].amount_paid = SettlementAmount(offers[o], desk),
                   ![o].payer = k,
                   ![o].paid = TRUE]

TransfersToAgent ==
    \E i \in 1..Len(out') : out'[i].kind = "transfer" /\ out'[i].to = desk.agent

\* the commission the pay of offer o transfers when the account is supplied
CommissionOf(o) ==
    IF offers[o].currency = 1 THEN CommissionUsdc(o) ELSE CommissionLamports(o)

PayWithoutAgent(o, k) ==
    /\ offers' = PaidBy(o, k)
    /\ ~TransfersToAgent
    /\ ~Emits("AgentCommissionPaid", o)
    /\ out' = <<Transfer(IF offers[o].currency = 1 THEN "USDC" ELSE "SOL",
                         k, DESK, offers'[o].amount_paid),
                Event("OfferPaid", o)>>
    /\ deskUsdc' + deskSol' = deskUsdc + deskSol + offers'[o].amount_paid
    /\ UNCHANGED <<desk, reg, cons, treasury, otherTreasury>>

PayWithAgent(o, k) ==
    /\ offers' = PaidBy(o, k)
    /\ (TransfersToAgent <=> CommissionOf(o) > 0)
    /\ (Emits("AgentCommissionPaid", o) <=> CommissionOf(o) > 0)
    /\ deskUsdc' + deskSol' =
           deskUsdc + deskSol + offers'[o].amount_paid - CommissionOf(o)
    /\ UNCHANGED <<desk, reg, cons, treasury, otherTreasury>>

\* C25: a pay call without the agent's payout account succeeds exactly when
\* the same call with the agent's account succeeds, collects the same
\* amount_paid and leaves the same offer; it differs only in making no
\* commission transfer and emitting no AgentCommissionPaid, and nothing in
\* the desk, the registry, the consignments or the offer records the
\* commission that was not paid.
C25_PayWithoutAgent ==
    /\ []SameAnswerWithoutAgent
    /\ [][\A o \in DOMAIN offers :
              Pays(o) =>
                  LET k == offers'[o].payer IN
                  /\ (fulfill_offer_usdc(o, k, None) \/ fulfill_offer_sol(o, k, None))
                         => PayWithoutAgent(o, k)
                  /\ (fulfill_offer_usdc(o, k, AGENT) \/ fulfill_offer_sol(o, k, AGENT))
                         => PayWithAgent(o, k)]_vars

\* an offer with a commission was paid and no commission was transferred
C25_Witness ==
    \E o \in DOMAIN offers :
        /\ Emitted("OfferPaid", o)
        /\ ~Emitted("AgentCommissionPaid", o)
        /\ Len(out) = 2
        /\ CommissionOf(o) > 0
        /\ deskUsdc + deskSol = offers[o].amount_paid

----------------------------------------------------------------------------
(* C26: the deviation gate of a feed update *)

Abs(x) == IF x >= 0 THEN x ELSE -x

\* the feed answers with a price that converts to 8 decimals
Delivers(f) == f.fresh /\ convert_pyth_price(f.price, f.exponent)[1] = "Ok"

NewPrice(f) == convert_pyth_price(f.price, f.exponent)[2]

WithinBound(p, new, b) == Abs(new - p) * BPS_DENOM <= p * b

\* what update_token_price_from_pyth answers to a delivered price
DeviationGate ==
    \A f \in PriceFeeds, b \in DeviationBounds :
        LET r == update_token_price_from_pyth_check(f, b)
            p == reg.token_usd_price_8d
        IN Delivers(f) =>
               IF p > 0 /\ b > 0
               THEN r = (IF WithinBound(p, NewPrice(f), b) THEN "Ok"
                         ELSE "PriceDeviationTooLarge")
               ELSE r = "Ok"

\* an accepted update stores the new price and the time
StoresNewPrice ==
    \A f \in PriceFeeds, b \in DeviationBounds :
        update_token_price_from_pyth(f, b) =>
            /\ reg'.token_usd_price_8d = NewPrice(f)
            /\ reg'.prices_updated_at = now
            /\ (reg.token_usd_price_8d > 0 /\ b > 0)
                   => WithinBound(reg.token_usd_price_8d, NewPrice(f), b)

\* the stored price and its timestamp change only by an accepted update
\* of the feed or by the owner's set_manual_token_price
OnlyAcceptedUpdates ==
    (\/ reg'.token_usd_price_8d # reg.token_usd_price_8d
     \/ reg'.prices_updated_at # reg.prices_updated_at)
        => \/ \E f \in PriceFeeds, b \in DeviationBounds :
                  update_token_price_from_pyth(f, b)
           \/ \E pr \in ManualPrices : set_manual_token_price(desk.owner, pr)

\* C26: a feed update with stored price p > 0 and bound b > 0 is accepted,
\* and the new price stored, exactly when |new - p| * 10000 <= p * b;
\* otherwise it is answered with PriceDeviationTooLarge and the stored price
\* and its timestamp stay; with p = 0 or b = 0 the new price is stored
\* unchecked.
C26_DeviationGate ==
    /\ []DeviationGate
    /\ [][StoresNewPrice /\ OnlyAcceptedUpdates]_vars

\* with a stored price and a bound of 5% the update to exactly +5% is
\* answered Ok and the update one unit above it PriceDeviationTooLarge
C26_Witness ==
    /\ reg.token_usd_price_8d = 10000
    /\ \E f \in PriceFeeds :
           /\ Delivers(f)
           /\ NewPrice(f) = 10500
           /\ update_token_price_from_pyth_check(f, 500) = "Ok"
    /\ \E f \in PriceFeeds :
           /\ Delivers(f)
           /\ NewPrice(f) = 10501
           /\ update_token_price_from_pyth_check(f, 500)
                  = "PriceDeviationTooLarge"

----------------------------------------------------------------------------
(* C27: withdraw_consignment *)

\* what withdraw_consignment answers to every caller
WithdrawAnswers ==
    \A c \in 1..Len(cons), k \in Keys :
        LET r == withdraw_consignment_check(c, k) IN
        /\ r = "Ok" => (k = cons[c].consigner /\ cons[c].is_active)
        /\ k # cons[c].consigner => r = "NotOwner"
        /\ (k = cons[c].consigner /\ ~cons[c].is_active) => r = "BadState"

\* what a withdrawal does
WithdrawEffect ==
    \A c \in 1..Len(cons) :
        (cons[c].is_active /\ ~cons'[c].is_active /\ offers' = offers) =>
            \A k \in Keys :
                withdraw_consignment(c, k) =>
                    /\ k = cons[c].consigner
                    /\ out' = <<Transfer("TOKEN", DESK, cons[c].consigner,
                                         cons[c].remaining_amount)>>
                    /\ treasury' = treasury - cons[c].remaining_amount
                    /\ cons' = [cons EXCEPT ![c].remaining_amount = 0,
                                            ![c].is_active = FALSE]
                    /\ UNCHANGED <<offers, desk, reg>>

\* only a withdrawal deactivates a consignment that has tokens left
OnlyWithdrawEmpties ==
    \A c \in 1..Len(cons) :
        (cons[c].is_active /\ ~cons'[c].is_active /\ offers' = offers) =>
            withdraw_consignment(c, cons[c].consigner)

\* C27: withdraw_consignment succeeds only for the consignment's consigner
\* and only while the consignment is active; it returns exactly
\* remaining_amount to the consigner, sets remaining_amount to 0 and
\* is_active to false and leaves every offer as it was; any other caller is
\* answered NotOwner and the consigner of an inactive consignment BadState.
C27_Withdraw ==
    /\ []WithdrawAnswers
    /\ [][WithdrawEffect /\ OnlyWithdrawEmpties]_vars

\* a consignment with an offer against it was withdrawn: the rest went back
\* to the consigner and the offer is still there
C27_Witness ==
    \E c \in 1..Len(cons), o \in DOMAIN offers :
        /\ ~cons[c].is_active
        /\ cons[c].remaining_amount = 0
        /\ IsOffer(o)
        /\ offers[o].consignment_id = cons[c].id
        /\ ~offers[o].cancelled
        /\ out = <<Transfer("TOKEN", DESK, cons[c].consigner,
                            cons[c].total_amount - offers[o].token_amount)>>

----------------------------------------------------------------------------
(* C28: reactivation of a consignment *)

(* One consigner's consignment, offers created against it under its own    *)
(* id, each in an offer account of its own, cancelled only by               *)
(* cancel_offer_with_consignment: the offers that are not cancelled then    *)
(* hold exactly the tokens reserved.                                        *)

RestoreSlots == 1..RestoreOffers

InitRestore ==
    /\ desk = [InitDesk(10000, MIN_QUOTE_EXPIRY_SECS) EXCEPT
                 !.approvers = <<"appr">>]
    /\ reg = [RegisterToken(2, "None", "alice") EXCEPT
                 !.token_usd_price_8d = 10000,
                 !.prices_updated_at = StartTime]
    /\ cons = <<>>
    /\ offers = [o \in RestoreSlots |-> NoOffer]
    /\ now = StartTime
    /\ ticks = 0
    /\ treasury = 0
    /\ otherTreasury = 0
    /\ deskUsdc = 0
    /\ deskSol = 0
    /\ out = <<>>

NextRestore ==
    \/ Tick(MIN_QUOTE_EXPIRY_SECS)
    \/ Len(cons) < RestoreCons /\ create_consignment("alice", 500, FixedTerms)
    \/ \E o \in RestoreSlots, c \in 1..RestoreCons, a \in OfferAmounts :
           /\ ~IsOffer(o)
           /\ create_offer_from_consignment(o, c, c, "bob", a, 300, 1,
                                            SECS_PER_DAY, 0)
    \/ \E c \in 1..RestoreCons : withdraw_consignment(c, "alice")
    \/ \E o \in RestoreSlots, c \in 1..RestoreCons, k \in {OWNER, "bob"} :
           cancel_offer_with_consignment(o, c, k)
    \/ \E o \in RestoreSlots, g \in AgentAccounts : fulfill_offer_usdc(o, "bob", g)

SpecRestore == InitRestore /\ [][NextRestore]_vars

\* consignment c is inactive because the offers against it that are not
\* cancelled hold all its tokens; a withdrawal leaves them holding less
ExhaustedByReservations(c) ==
    /\ ~cons[c].is_active
    /\ cons[c].remaining_amount = 0
    /\ ReservedUpTo(cons[c].id, Len(offers)) = cons[c].total_amount

\* this step makes the inactive consignment c active
Reactivates(c) == ~cons[c].is_active /\ cons'[c].is_active

\* C28: a consignment deactivated by its consigner's withdrawal never
\* becomes active again: a step reactivates a consignment only if it was
\* inactive solely because reservations had brought its remaining_amount
\* to 0.
C28_WithdrawnStaysInactive ==
    [][\A c \in 1..Len(cons) :
          Reactivates(c) => ExhaustedByReservations(c)]_vars

----------------------------------------------------------------------------
(* C29: private consignments *)

(* A private and a public fixed-term consignment of the same consigner,    *)
(* offers requested for every key, while the owner adds and removes         *)
(* approvers                                                                *)

PrivateTerms == [FixedTerms EXCEPT !.is_private = TRUE]

PrivateSlots == 1..PrivateOffers
PrivateBeneficiaries == Keys \cup {"carol"}

InitPrivate ==
    /\ desk = [InitDesk(10000, MIN_QUOTE_EXPIRY_SECS) EXCEPT
                 !.approvers = <<"appr">>]
    /\ reg = [RegisterToken(2, "None", "alice") EXCEPT
                 !.token_usd_price_8d = 10000,
                 !.prices_updated_at = StartTime]
    /\ cons = <<>>
    /\ offers = [o \in PrivateSlots |-> NoOffer]
    /\ now = StartTime
    /\ ticks = 0
    /\ treasury = 0
    /\ otherTreasury = 0
    /\ deskUsdc = 0
    /\ deskSol = 0
    /\ out = <<>>

NextPrivate ==
    \/ Tick(MIN_QUOTE_EXPIRY_SECS)
    \/ \E k \in {OWNER, "bob"}, w \in {"appr", "bob"}, e \in BOOLEAN :
           set_approver(k, w, e)
    \/ \E t \in {PrivateTerms, FixedTerms} :
           Len(cons) < PrivateCons /\ create_consignment("alice", 500, t)
    \/ \E o \in PrivateSlots, c \in 1..PrivateCons, b \in PrivateBeneficiaries :
           /\ desk.next_offer_id <= PrivateOfferId
           /\ create_offer_from_consignment(o, c, c, b, 200, 300, 1,
                                            SECS_PER_DAY, 0)
    \/ \E o \in PrivateSlots, c \in 1..PrivateCons, k \in {OWNER, "bob"} :
           cancel_offer_with_consignment(o, c, k)

SpecPrivate == InitPrivate /\ [][NextPrivate]_vars

\* who may create an offer against the private consignment c
MayCreate(c, b) ==
    \/ b = cons[c].consigner
    \/ b = desk.owner
    \/ b = desk.agent
    \/ \E i \in 1..Len(desk.approvers) : desk.approvers[i] = b

CreateAnswer(c, b) ==
    create_offer_from_consignment_check(c, b, 200, 300, 1, SECS_PER_DAY, 0)

\* what create_offer_from_consignment answers to every beneficiary
PrivateAnswers ==
    \A c \in 1..Len(cons) :
        IF cons[c].is_private
        THEN \A b \in PrivateBeneficiaries :
                /\ CreateAnswer(c, b) = "Ok" => MayCreate(c, b)
                /\ (cons[c].is_active /\ ~MayCreate(c, b))
                       => CreateAnswer(c, b) = "FulfillRestricted"
                /\ MayCreate(c, b) => CreateAnswer(c, b) = CreateAnswer(c, desk.owner)
        ELSE \A b \in PrivateBeneficiaries :
                CreateAnswer(c, b) = CreateAnswer(c, desk.owner)

\* an offer that takes tokens of a private consignment is one of a
\* beneficiary who may create
PrivateCreation ==
    \A o \in DOMAIN offers, c \in 1..Len(cons) :
        (Creates(o) /\ Reserves(c) /\ cons[c].is_private)
            => MayCreate(c, offers'[o].beneficiary)

\* C29: against a private consignment create_offer_from_consignment
\* succeeds only for a beneficiary who is the consigner, the desk owner,
\* the agent or an approver at that time; everybody else is rejected and
\* remaining_amount stays; against a public consignment the answer does not
\* depend on the beneficiary.
C29_PrivateConsignment ==
    /\ []PrivateAnswers
    /\ [][PrivateCreation /\ RejectedChangesNothing]_vars

\* an approver's offer was created against a private consignment that
\* rejects a removed approver and a stranger, next to a public consignment
\* that accepts the stranger
C29_Witness ==
    \E o \in DOMAIN offers, c \in 1..Len(cons), p \in 1..Len(cons) :
        /\ cons[c].is_private
        /\ cons[c].is_active
        /\ Emitted("OfferCreated", o)
        /\ offers[o].consignment_id = cons[c].id
        /\ offers[o].beneficiary = "bob"
        /\ IsApprover("bob")
        /\ ~IsApprover("appr")
        /\ desk.next_offer_id <= PrivateOfferId
        /\ CreateAnswer(c, "appr") = "FulfillRestricted"
        /\ CreateAnswer(c, "carol") = "FulfillRestricted"
        /\ ~cons[p].is_private
        /\ CreateAnswer(p, "carol") = "Ok"

----------------------------------------------------------------------------
(* C30: the price of an active registry *)

\* C30: in every reachable state a TokenRegistry whose is_active flag is set
\* has a stored USD price > 0.
C30_ActiveHasPrice == reg.is_active => reg.token_usd_price_8d > 0

----------------------------------------------------------------------------
(* C31: calc_discounted_usd *)

(* A registry with any of a few prices and decimals, and standalone offers  *)
(* of a few amounts and discounts created on a desk with minimum 1; the     *)
(* values stay within the integers of the model checker, far below 2^64     *)

MathPrices == {1, 333, 999, 1000}
MathDecimals == {0, 1, 2, 3}
MathAmounts == {1, 7, 150, 199, 200}
MathDiscounts == {0, 1, 2500, 3333, 9999, BPS_DENOM}
MathSlots == 1..MathOffers

InitMath ==
    /\ desk = InitDesk(1, MIN_QUOTE_EXPIRY_SECS)
    /\ \E p \in MathPrices, dec \in MathDecimals :
           reg = [RegisterToken(dec, "None", "alice") EXCEPT
                     !.token_usd_price_8d = p,
                     !.prices_updated_at = StartTime]
    /\ cons = <<>>
    /\ offers = [o \in MathSlots |-> NoOffer]
    /\ now = StartTime
    /\ ticks = 0
    /\ treasury = 0
    /\ otherTreasury = 0
    /\ deskUsdc = 0
    /\ deskSol = 0
    /\ out = <<>>

NextMath ==
    \/ Tick(MIN_QUOTE_EXPIRY_SECS)
    \/ \E o \in MathSlots, a \in MathAmounts, d \in MathDiscounts :
           /\ desk.next_offer_id <= MathOfferId
           /\ create_offer(o, "bob", a, d, 1, SECS_PER_DAY)

SpecMath == InitMath /\ [][NextMath]_vars

\* amount * price / 10^decimals, rounded down
PricedUsd(a, p, dec) == (a * p) \div pow10(dec)

\* the value, its two roundings and its monotony for the registry's price
\* and decimals and every amount and discount
DiscountedUsdLaws ==
    LET p == reg.token_usd_price_8d
        dec == reg.decimals
    IN \A a \in MathAmounts, d \in MathDiscounts :
           LET v == calc_discounted_usd(a, p, dec, d) IN
           /\ v = (PricedUsd(a, p, dec) * (BPS_DENOM - d)) \div BPS_DENOM
           /\ d = 0 => v = PricedUsd(a, p, dec)
           /\ \A a2 \in MathAmounts :
                  a <= a2 => v <= calc_discounted_usd(a2, p, dec, d)
           /\ \A p2 \in MathPrices :
                  p <= p2 => v <= calc_discounted_usd(a, p2, dec, d)
           /\ \A d2 \in MathDiscounts :
                  d <= d2 => v >= calc_discounted_usd(a, p, dec, d2)

\* C31: calc_discounted_usd(amount, price, decimals, discount_bps) is
\* floor(floor(amount * price / 10^decimals) * (10000 - discount_bps) / 10000),
\* which is floor(amount * price / 10^decimals) at discount 0; it does not
\* decrease when amount or price grows nor increase when the discount grows.
C31_DiscountedUsd == DiscountedUsdLaws

\* an offer was created whose value is rounded at both divisions
C31_Witness ==
    \E o \in DOMAIN offers :
        /\ Emitted("OfferCreated", o)
        /\ offers[o].discount_bps > 0
        /\ OfferUsd(o) > 0
        /\ (offers[o].token_amount * offers[o].price_usd_per_token_8d)
               % pow10(offers[o].token_decimals) # 0
        /\ (PricedUsd(offers[o].token_amount, offers[o].price_usd_per_token_8d,
                      offers[o].token_decimals)
            * (BPS_DENOM - offers[o].discount_bps)) % BPS_DENOM # 0

----------------------------------------------------------------------------
(* The pool oracle: a registry with a pool, configured by the owner and    *)
(* updated by anyone from the pool, the feed or the bonding curve          *)

PoolKey == "pool"
\* the pool accounts a caller may pass: spot prices 10000, 10030, 10500 and
\* 12000, an empty quote vault, a spot price of 0, another program's pool
\* and an account that is not the registry's pool
PoolAccounts ==
    {[key |-> PoolKey, program |-> "Raydium", amount_a |-> 100, amount_b |-> b] :
         b \in {0, 10000, 10030, 10500, 12000}}
    \cup {[key |-> PoolKey, program |-> "Raydium", amount_a |-> 101, amount_b |-> 1],
          [key |-> PoolKey, program |-> "Orca", amount_a |-> 100, amount_b |-> 10000],
          [key |-> "bob", program |-> "Raydium", amount_a |-> 100, amount_b |-> 10000]}
\* the bonding curves a caller may pass, and the SOL prices they may claim
CurveAccounts ==
    {[key |-> PoolKey, sol |-> 10500, tokens |-> 1],
     [key |-> PoolKey, sol |-> 1, tokens |-> 1],
     [key |-> PoolKey, sol |-> 0, tokens |-> 1]}
CurveSolPrices == {0, MIN_SOL_USD_8D, USD_SCALE_8D}
PoolFeeds ==
    {[fresh |-> TRUE, price |-> 10500, exponent |-> 8],
     [fresh |-> FALSE, price |-> 10000, exponent |-> 8]}
PoolTypes == {"Raydium", "PumpSwap", "Other"}
PoolLiquidity == {0, 10030}
PoolDeviations == {0, 500, MAX_TWAP_DEVIATION_BPS + 1}
PoolIntervals == {MIN_UPDATE_INTERVAL_SECS - 1, MIN_UPDATE_INTERVAL_SECS,
                  INIT_REGISTRY_UPDATE_INTERVAL_SECS}
PoolTicks == {MIN_UPDATE_INTERVAL_SECS, 2 * MAX_EMA_WEIGHT}

InitPool ==
    /\ desk = InitDesk(10000, MIN_QUOTE_EXPIRY_SECS)
    /\ reg = [RegisterToken(0, "Raydium", "alice") EXCEPT !.pool_address = PoolKey]
    /\ cons = <<>>
    /\ offers = <<>>
    /\ now = StartTime
    /\ ticks = 0
    /\ treasury = 0
    /\ otherTreasury = 0
    /\ deskUsdc = 0
    /\ deskSol = 0
    /\ out = <<>>

NextPool ==
    \/ \E d \in PoolTicks : Tick(d)
    \/ \E k \in {OWNER, "alice", "bob"}, t \in PoolTypes :
           set_token_pool_config(k, PoolKey, t)
    \/ \E k \in {OWNER, "bob"}, l \in PoolLiquidity, b \in PoolDeviations,
          i \in PoolIntervals : configure_pool_oracle(k, l, b, i)
    \/ \E pool \in PoolAccounts : update_token_price_from_pool(pool)
    \/ \E curve \in CurveAccounts, sp \in CurveSolPrices :
           update_token_price_from_pumpswap(curve, sp)
    \/ \E f \in PoolFeeds : update_token_price_from_pyth(f, 0)

SpecPool == InitPool /\ [][NextPool]_vars


----------------------------------------------------------------------------
(* C32: repeated submissions of one spot price *)

PoolSpots == {10000, 10030, 10500, 12000}

\* the step is an accepted pool update
PoolUpdate == reg'.twap_last_timestamp # reg.twap_last_timestamp

\* the step is a smoothed pool update that submits the spot price S, the
\* one the previous pool update submitted, and no other update has written
\* the price at a later time
Resubmits(S) ==
    /\ PoolUpdate
    /\ reg.twap_last_timestamp > 0
    /\ reg.max_twap_deviation_bps > 0
    /\ reg.prices_updated_at = reg.twap_last_timestamp
    /\ reg.twap_last_price = S
    /\ reg'.twap_last_price = S

\* C32: with smoothing enabled, a pool update that submits the spot price S
\* again never increases the distance |stored - S| and, while the distance
\* is not 0, brings the stored price closer to S, so that submissions of S
\* at a fixed interval reach S: at a fixed interval the new price is a
\* function of the stored one, and a submission that leaves the distance
\* as it is leaves it so at every later one.
C32_EmaConverges ==
    [][\A S \in PoolSpots :
          Resubmits(S) =>
              /\ Abs(reg'.token_usd_price_8d - S) <= Abs(reg.token_usd_price_8d - S)
              /\ Abs(reg.token_usd_price_8d - S) > 0 =>
                     Abs(reg'.token_usd_price_8d - S) < Abs(reg.token_usd_price_8d - S)]_vars

----------------------------------------------------------------------------
(* C33: the rate limit of the updates anyone may call *)

\* a previous update exists and is closer than the registry's interval
TooFrequent ==
    /\ reg.prices_updated_at > 0
    /\ now - reg.prices_updated_at < reg.min_update_interval_secs

\* the step is an accepted update of the registry's price: under SpecPool
\* the pool, feed and bonding-curve updates are the only steps that write
\* the price or its timestamps
PriceWritten ==
    \/ reg'.token_usd_price_8d # reg.token_usd_price_8d
    \/ reg'.prices_updated_at # reg.prices_updated_at
    \/ PoolUpdate

\* every update that is too frequent is answered UpdateTooFrequent, unless
\* a check that comes before the rate limit has already rejected it
TooFrequentRejected ==
    TooFrequent =>
        /\ \A pool \in PoolAccounts :
               update_token_price_from_pool_check(pool) \in
                   {"UpdateTooFrequent", "BadState", "FeedNotConfigured"}
        /\ \A f \in PoolFeeds :
               update_token_price_from_pyth_check(f, 0) \in
                   {"UpdateTooFrequent", "AmountRange"}
        /\ \A curve \in CurveAccounts, sp \in CurveSolPrices :
               update_token_price_from_pumpswap_check(curve, sp) \in
                   {"UpdateTooFrequent", "BadState", "FeedNotConfigured"}

\* C33: a pool, feed or bonding-curve update made sooner than
\* min_update_interval_secs after the previous update is answered
\* UpdateTooFrequent, and no accepted update of the price is closer than
\* min_update_interval_secs to the update before it.
C33_RateLimited ==
    /\ []TooFrequentRejected
    /\ [][PriceWritten => ~TooFrequent]_vars


----------------------------------------------------------------------------
(* C34: the smoothed price *)

\* a prior EMA timestamp exists and smoothing is enabled
Smoothing == reg.twap_last_timestamp > 0 /\ reg.max_twap_deviation_bps > 0

\* floor((oldEma * w + spot) / (w + 1)), w = min(now - lastTimestamp, 3600)
NewEma(spot) ==
    LET elapsed == now - reg.twap_last_timestamp
        w == IF elapsed <= 3600 THEN elapsed ELSE 3600
    IN ((reg.token_usd_price_8d * w) + spot) \div (w + 1)

\* |spot - newEma| * 10000 <= newEma * max_twap_deviation_bps
WithinTwapBound(spot) ==
    Abs(spot - NewEma(spot)) * 10000 <= NewEma(spot) * reg.max_twap_deviation_bps

\* what a pool update answers to a spot price inside and outside the bound
TwapAnswers ==
    \A pool \in PoolAccounts :
        LET r == update_token_price_from_pool_check(pool) IN
        /\ r = "TwapDeviationTooLarge" =>
               Smoothing /\ ~WithinTwapBound(SpotPrice(pool))
        /\ (r = "Ok" /\ Smoothing) => WithinTwapBound(SpotPrice(pool))

\* an accepted pool update stores the smoothed price of a spot price
\* within the bound, or the spot price itself where nothing is smoothed
StoresSmoothed ==
    PoolUpdate =>
        \E pool \in PoolAccounts :
            /\ update_token_price_from_pool_check(pool) = "Ok"
            /\ reg'.twap_last_price = SpotPrice(pool)
            /\ Smoothing => WithinTwapBound(SpotPrice(pool))
            /\ reg'.token_usd_price_8d =
                   IF Smoothing THEN NewEma(SpotPrice(pool))
                   ELSE SpotPrice(pool)
            /\ reg'.twap_last_timestamp = now
            /\ reg'.prices_updated_at = now

----------------------------------------------------------------------------
(* C35: the life cycle of a standalone offer *)

\* account o holds an offer that create_offer made: consignment id 0 and
\* no agent commission (create_offer_from_consignment stores the id its
\* caller passes, which may be 0, and a commission of 25 bps or more)
Standalone(o) ==
    /\ IsOffer(o)
    /\ offers[o].consignment_id = 0
    /\ offers[o].agent_commission_bps = 0

\* no standalone offer is approved, paid or fulfilled
StandaloneNeverApproved ==
    \A o \in DOMAIN offers :
        Standalone(o) =>
            ~offers[o].approved /\ ~offers[o].paid /\ ~offers[o].fulfilled

\* C35: a standalone offer can be carried from Created to Approved (and on
\* to Paid and Fulfilled): while it is open, the desk is not paused and a
\* negotiable consignment exists, there is a Consignment account with
\* which the agent's or an approver's approve_offer is accepted.
C35_StandaloneLifecycle ==
    \A o \in DOMAIN offers :
        (/\ Standalone(o)
         /\ ~desk.paused
         /\ \E c \in 1..Len(cons) : cons[c].is_negotiable
         /\ ~offers[o].approved /\ ~offers[o].cancelled /\ ~offers[o].paid)
        => \E c \in 1..Len(cons), k \in Keys :
               approve_offer_check(o, c, k) = "Ok"


----------------------------------------------------------------------------
(* C36: create instructions and existing offers *)

\* the step is an accepted create_offer or create_offer_from_consignment
CreateStep == desk'.next_offer_id # desk.next_offer_id

\* the step leaves what account o records about the deal as it is
KeepsDeal(o) ==
    /\ offers'[o].id = offers[o].id
    /\ offers'[o].beneficiary = offers[o].beneficiary
    /\ offers'[o].token_amount = offers[o].token_amount
    /\ offers'[o].price_usd_per_token_8d = offers[o].price_usd_per_token_8d
    /\ offers'[o].sol_usd_price_8d = offers[o].sol_usd_price_8d

\* the step clears none of the flags of account o
KeepsFlags(o) ==
    /\ offers[o].approved => offers'[o].approved
    /\ offers[o].paid => offers'[o].paid
    /\ offers[o].fulfilled => offers'[o].fulfilled
    /\ offers[o].cancelled => offers'[o].cancelled

\* C36: no create instruction modifies an offer record that exists; an
\* offer's beneficiary, token_amount and frozen prices never change, its
\* payer and amount_paid change in no create step, and each of its
\* approved, paid, fulfilled and cancelled flags, once true, stays true.
C36_CreateLeavesOffers ==
    [][\A o \in DOMAIN offers :
          (IsOffer(o) /\ offers'[o] # offers[o]) =>
              /\ ~CreateStep
              /\ KeepsDeal(o)
              /\ KeepsFlags(o)]_vars


----------------------------------------------------------------------------
(* Lockups: offers are created with lockups of either sign, against the    *)
(* desk's limits and against negotiable and fixed consignment terms        *)

LockupOffers == 1
LockupCons == 1
LockupOfferId == 2

LockupSlots == 1..LockupOffers
\* fixed terms without a lockup
FixedTermsNoLockup == [FixedTerms EXCEPT !.fixed_lockup_days = 0]
LockupTerms == {NegotiableTerms, FixedTerms, FixedTermsNoLockup}
\* lockup_secs is an i64
LockupSecs == {-SECS_PER_DAY, -1, 0, SECS_PER_DAY}
UnlockDelays == {-1, 0, SECS_PER_DAY}
MaxLockups == {-1, SECS_PER_DAY, ONE_YEAR}

InitLockup ==
    /\ desk = [InitDesk(10000, MIN_QUOTE_EXPIRY_SECS) EXCEPT
                 !.approvers = <<"appr">>]
    /\ reg = [RegisterToken(2, "None", "alice") EXCEPT
                 !.token_usd_price_8d = 10000,
                 !.prices_updated_at = StartTime]
    /\ cons = <<>>
    /\ offers = [o \in LockupSlots |-> NoOffer]
    /\ now = StartTime
    /\ ticks = 0
    /\ treasury = 0
    /\ otherTreasury = 0
    /\ deskUsdc = 0
    /\ deskSol = 0
    /\ out = <<>>

NextLockup ==
    \/ Tick(MIN_QUOTE_EXPIRY_SECS)
    \/ \E k \in {OWNER, "bob"}, d \in UnlockDelays, m \in MaxLockups :
           set_limits(k, 10000, 1, MIN_QUOTE_EXPIRY_SECS, d, m)
    \/ \E t \in LockupTerms :
           Len(cons) < LockupCons /\ create_consignment("alice", 500, t)
    \/ \E o \in LockupSlots, l \in LockupSecs :
           /\ desk.next_offer_id <= LockupOfferId
           /\ create_offer(o, "bob", 200, 300, 1, l)
    \/ \E o \in LockupSlots, c \in 1..LockupCons, l \in LockupSecs :
           /\ desk.next_offer_id <= LockupOfferId
           /\ create_offer_from_consignment(o, c, c, "bob", 200, 300, 1, l,
                  MAX_NEGOTIATED_COMMISSION_BPS)
    \/ \E o \in LockupSlots, c \in 1..LockupCons : approve_offer(o, c, AGENT)
    \/ \E o \in LockupSlots : fulfill_offer_usdc(o, "bob", AGENT)
    \/ \E o \in LockupSlots : claim(o, "bob")

SpecLockup == InitLockup /\ [][NextLockup]_vars

\* C37: every offer in every reachable state has unlock_time >= created_at,
\* whether made by create_offer or from a negotiable or fixed-term
\* consignment.
C37_UnlockAfterCreation ==
    \A o \in DOMAIN offers :
        IsOffer(o) => offers[o].unlock_time >= offers[o].created_at

\* the same for the offers create_offer made
StandaloneUnlockAfterCreation ==
    \A o \in DOMAIN offers :
        Standalone(o) => offers[o].unlock_time >= offers[o].created_at


----------------------------------------------------------------------------
(* Payouts: two offers of a negotiable consignment, each in its own        *)
(* account, approved, paid with the agent's account passed, then claimed   *)
(* or refunded                                                             *)

PayoutOffers == 2
PayoutCons == 1
PayoutOfferId == 2

PayoutSlots == 1..PayoutOffers

\* as Init; the emergency refund is enabled with the deadline of init_desk
InitPayout ==
    /\ desk = [InitDesk(10000, MIN_QUOTE_EXPIRY_SECS) EXCEPT
                 !.approvers = <<"appr">>,
                 !.emergency_refund_enabled = TRUE,
                 !.sol_usd_price_8d = 3000000]
    /\ reg = [RegisterToken(2, "None", "alice") EXCEPT
                 !.token_usd_price_8d = 10000,
                 !.prices_updated_at = StartTime]
    /\ cons = <<>>
    /\ offers = [o \in PayoutSlots |-> NoOffer]
    /\ now = StartTime
    /\ ticks = 0
    /\ treasury = 0
    /\ otherTreasury = 0
    /\ deskUsdc = 0
    /\ deskSol = 0
    /\ out = <<>>

NextPayout ==
    \/ Tick(THIRTY_DAYS)
    \/ Len(cons) < PayoutCons /\ create_consignment("alice", 500, NegotiableTerms)
    \/ \E o \in PayoutSlots, c \in 1..PayoutCons, cur \in Currencies :
           /\ desk.next_offer_id <= PayoutOfferId
           /\ ~IsOffer(o)
           /\ create_offer_from_consignment(o, c, c, "bob", 200, 300, cur,
                  SECS_PER_DAY, MAX_NEGOTIATED_COMMISSION_BPS)
    \/ \E o \in PayoutSlots, c \in 1..PayoutCons : approve_offer(o, c, AGENT)
    \/ \E o \in PayoutSlots : fulfill_offer_usdc(o, "bob", AGENT)
    \/ \E o \in PayoutSlots : fulfill_offer_sol(o, "bob", AGENT)
    \/ \E o \in PayoutSlots : claim(o, "bob")
    \/ \E o \in PayoutSlots : emergency_refund_sol(o, "bob")
    \/ \E o \in PayoutSlots : emergency_refund_usdc(o, "bob")

SpecPayout == InitPayout /\ [][NextPayout]_vars

\* the step refunds the paid offer in account o
Refunds(o) ==
    /\ IsOffer(o) /\ SameOffer(o)
    /\ offers[o].paid /\ ~offers[o].cancelled /\ offers'[o].cancelled

\* what the step transfers from the desk to the payer of offer o
RefundOf(o) ==
    IF \E i \in 1..Len(out') : out'[i].from = DESK /\ out'[i].to = offers[o].payer
    THEN (CHOOSE t \in {out'[i] : i \in 1..Len(out')} :
              t.from = DESK /\ t.to = offers[o].payer).amount
    ELSE 0

\* C38: what the desk has paid out in settlement currency on an offer's
\* account, the agent commission transferred when it was paid plus an
\* emergency refund, never exceeds the offer's amount_paid.  Under
\* SpecPayout every pay passes the agent's account, so the commission of a
\* paid offer has been transferred, and a refund is the last payout on an
\* offer.
C38_PayoutWithinPayment ==
    [][\A o \in DOMAIN offers :
          Refunds(o) => CommissionOf(o) + RefundOf(o) <= offers[o].amount_paid]_vars


----------------------------------------------------------------------------
(* Custody: consignments of two mints, offers against the registered one,  *)
(* and every instruction that moves or reserves tokens except the owner's  *)
(* withdraw_tokens                                                         *)

CustodyOffers == 1
CustodyCons == 2
CustodyOfferId == 2

CustodySlots == 1..CustodyOffers
\* fixed terms for tokens of the mint without a registry
OtherMintTerms == [FixedTerms EXCEPT !.token_mint = OTHER_MINT]
Mints == {TOKEN_MINT, OTHER_MINT}

InitCustody ==
    /\ desk = [InitDesk(10000, MIN_QUOTE_EXPIRY_SECS) EXCEPT
                 !.approvers = <<"appr">>,
                 !.sol_usd_price_8d = 3000000]
    /\ reg = [RegisterToken(2, "None", "alice") EXCEPT
                 !.token_usd_price_8d = 10000,
                 !.prices_updated_at = StartTime]
    /\ cons = <<>>
    /\ offers = [o \in CustodySlots |-> NoOffer]
    /\ now = StartTime
    /\ ticks = 0
    /\ treasury = 0
    /\ otherTreasury = 0
    /\ deskUsdc = 0
    /\ deskSol = 0
    /\ out = <<>>

NextCustody ==
    \/ Tick(SECS_PER_DAY)
    \/ \E t \in {FixedTerms, OtherMintTerms} :
           Len(cons) < CustodyCons /\ create_consignment("alice", 500, t)
    \/ \E o \in CustodySlots, c \in 1..CustodyCons, id \in 1..CustodyCons,
          a \in OfferAmounts :
           /\ desk.next_offer_id <= CustodyOfferId
           /\ create_offer_from_consignment(o, c, id, "bob", a, 300, 1,
                                            SECS_PER_DAY, 0)
    \/ \E c \in 1..CustodyCons : withdraw_consignment(c, "alice")
    \/ \E o \in CustodySlots, k \in {OWNER, "bob"} : cancel_offer(o, k)
    \/ \E o \in CustodySlots, c \in 1..CustodyCons, k \in {OWNER, "bob"} :
           cancel_offer_with_consignment(o, c, k)
    \/ \E o \in CustodySlots : fulfill_offer_usdc(o, "bob", None)
    \/ \E o \in CustodySlots : claim(o, "bob")

SpecCustody == InitCustody /\ [][NextCustody]_vars

\* the sum of remaining_amount over the consignments 1..n of a mint
RECURSIVE RemainingUpTo(_, _)
RemainingUpTo(mint, n) ==
    IF n = 0 THEN 0
    ELSE RemainingUpTo(mint, n - 1)
         + (IF cons[n].token_mint = mint THEN cons[n].remaining_amount ELSE 0)

\* the sum of token_amount over the offers of accounts 1..n that were made
\* from a consignment of the mint and are neither cancelled nor fulfilled;
\* an offer has the mint of the registry it was priced with
RECURSIVE LiveUpTo(_, _)
LiveUpTo(mint, n) ==
    IF n = 0 THEN 0
    ELSE LiveUpTo(mint, n - 1)
         + (IF /\ IsOffer(n) /\ offers[n].consignment_id > 0
               /\ reg.token_mint = mint
               /\ ~offers[n].cancelled /\ ~offers[n].fulfilled
            THEN offers[n].token_amount ELSE 0)

CustodyCovers(mint) ==
    TreasuryOf(mint) >= RemainingUpTo(mint, Len(cons)) + LiveUpTo(mint, Len(offers))

\* C39: as long as the owner calls no withdraw_tokens, the desk's custody
\* balance of each asset is at least the sum of remaining_amount over the
\* asset's consignments plus the token_amount of every offer made from a
\* consignment that is neither cancelled nor fulfilled, and no claim on a
\* paid, unlocked, non-cancelled offer fails for lack of tokens in custody.
C39_CustodyCoversInventory ==
    /\ \A mint \in Mints : CustodyCovers(mint)
    /\ \A o \in DOMAIN offers :
           IsOffer(o) => claim_check(o, offers[o].beneficiary) # "TransferFailed"

\* the same for the registered mint only
TokenCustodyCovers == CustodyCovers(TOKEN_MINT)


----------------------------------------------------------------------------
(* The quote expiry: the owner changes the desk's limits and pauses the    *)
(* desk while offers of a fixed-term consignment age and are paid          *)

ExpiryOffers == 1
ExpiryCons == 1
ExpiryOfferId == 1

ExpirySlots == 1..ExpiryOffers
QuoteExpiries == {MIN_QUOTE_EXPIRY_SECS - 1, MIN_QUOTE_EXPIRY_SECS, THIRTY_DAYS}

InitExpiry ==
    /\ desk = [InitDesk(10000, MIN_QUOTE_EXPIRY_SECS) EXCEPT
                 !.approvers = <<"appr">>,
                 !.sol_usd_price_8d = 3000000]
    /\ reg = [RegisterToken(2, "None", "alice") EXCEPT
                 !.token_usd_price_8d = 10000,
                 !.prices_updated_at = StartTime]
    /\ cons = <<>>
    /\ offers = [o \in ExpirySlots |-> NoOffer]
    /\ now = StartTime
    /\ ticks = 0
    /\ treasury = 0
    /\ otherTreasury = 0
    /\ deskUsdc = 0
    /\ deskSol = 0
    /\ out = <<>>

NextExpiry ==
    \/ \E d \in {MIN_QUOTE_EXPIRY_SECS, SECS_PER_DAY} : Tick(d)
    \/ \E k \in {OWNER, "bob"}, q \in QuoteExpiries, m \in {10000, 20000} :
           set_limits(k, m, 1, q, 0, ONE_YEAR)
    \/ pause(OWNER)
    \/ unpause(OWNER)
    \/ \E e \in BOOLEAN : set_restrict_fulfill(OWNER, e)
    \/ Len(cons) < ExpiryCons /\ create_consignment("alice", 500, FixedTerms)
    \/ \E o \in ExpirySlots, c \in 1..ExpiryCons, cur \in Currencies :
           /\ desk.next_offer_id <= ExpiryOfferId
           /\ ~IsOffer(o)
           /\ create_offer_from_consignment(o, c, c, "bob", 200, 300, cur,
                                            SECS_PER_DAY, 0)
    \/ \E o \in ExpirySlots, k \in Payers : fulfill_offer_usdc(o, k, None)
    \/ \E o \in ExpirySlots, k \in Payers : fulfill_offer_sol(o, k, None)

SpecExpiry == InitExpiry /\ [][NextExpiry]_vars

\* a pay of the unpaid offer in account o would fail with Expired
PayExpired(o) ==
    /\ IsOffer(o)
    /\ ~offers[o].paid
    /\ \/ fulfill_offer_usdc_check(o, offers[o].beneficiary, None) = "Expired"
       \/ fulfill_offer_sol_check(o, offers[o].beneficiary, None) = "Expired"

\* the conditions under which a pay of the offer off by its beneficiary is
\* accepted, of a desk dsk at time t with tokens tokens in the treasury
PayAccepted(off, dsk, t, tokens) ==
    /\ ~dsk.paused
    /\ off.approved
    /\ ~off.cancelled /\ ~off.paid /\ ~off.fulfilled
    /\ t <= off.created_at + dsk.quote_expiry_secs
    /\ tokens >= off.token_amount

\* PayAccepted is what the pay instructions accept
PayAcceptedIsCheck ==
    \A o \in DOMAIN offers :
        IsOffer(o) =>
            (PayAccepted(offers[o], desk, now, treasury)
             <=> \/ fulfill_offer_usdc_check(o, offers[o].beneficiary, None) = "Ok"
                 \/ fulfill_offer_sol_check(o, offers[o].beneficiary, None) = "Ok")

\* C40: once a pay of an unpaid offer would fail with Expired, no later pay
\* of that offer is accepted, whatever the owner configures in between: no
\* step, the owner's included, leads from a state in which the pay fails
\* with Expired to one in which it is accepted.
C40_ExpiredStaysExpired ==
    [][\A o \in DOMAIN offers :
          (PayExpired(o) /\ SameOffer(o)) =>
              ~PayAccepted(offers'[o], desk', now', treasury')]_vars


====
